---- MODULE Spec2Model ----
(***************************************************************************)
(* ClusterSynchro (pkg/synchromanager/clustersynchro/cluster_synchro.go):  *)
(* the lifetime of one cluster synchro, its runner gated on health, its    *)
(* plan refresh and its status publication, as a state machine whose       *)
(* processes are the goroutines of the source and whose steps are the      *)
(* statements between two synchronisation points.                          *)
(***************************************************************************)
EXTENDS Integers, FiniteSets, Sequences, TLC

\* ------------------------------------------------------------------ bounds

\* How many times the monitor may replace startRunnerCh / stopRunnerCh.
MaxChanGen == 2
\* How many reconcilers the synchro factory hands out before it only fails.
MaxSynchros == 2
\* How deep an error value is wrapped.
MaxWrap == 3

\* ---------------------------------------------------------------- universe

Nil == "nil"

\* Sync GVRs (read upstream) and the storage GVR each is stored as.
SyncGVRs == {"batch/v1beta1/cronjobs", "batch/v1/cronjobs", "apps/v1/deployments"}
StorageGVRs == {"batch/v1/cronjobs", "apps/v1/deployments"}

StorageGVROf(gvr) ==
    IF gvr = "apps/v1/deployments" THEN "apps/v1/deployments" ELSE "batch/v1/cronjobs"

\* The callers of Shutdown: Run's own call and two external ones.
Callers == {"run", "ext1", "ext2"}

\* Values SetResources is called with.
DesiredSets ==
    { {},
      {"apps/v1/deployments"},
      {"batch/v1beta1/cronjobs", "batch/v1/cronjobs"},
      {"batch/v1beta1/cronjobs", "batch/v1/cronjobs", "apps/v1/deployments"} }

\* What GetResourceVersions may return at New: storage GVR -> ClusterResourceVersions
\* (a watermark map is nil or a set of <<uid, rv>> entries).
NilMap == [nil |-> TRUE, entries |-> {}]
MakeMap(entries) == [nil |-> FALSE, entries |-> entries]

PersistedVersions ==
    { <<>>,
      [g \in {"apps/v1/deployments"} |-> [Resources |-> NilMap, Events |-> NilMap]],
      [g \in {"apps/v1/deployments"} |->
          [Resources |-> MakeMap({<<"u1", 10>>, <<"u2", 20>>}), Events |-> NilMap]] }

\* syncResources before SetResources, and a value SetResources stored.
NilResources == [nil |-> TRUE, gvrs |-> {}]
Resources(gvrs) == [nil |-> FALSE, gvrs |-> gvrs]

\* groupResourceStatus before the first refresh, and a status (sync GVR -> condition).
NilStatus == [nil |-> TRUE, conds |-> <<>>]
Status(conds) == [nil |-> FALSE, conds |-> conds]

\* Error values: nil, errors.New(msg), fmt.Errorf("msg: %w", err).
NilError == [type |-> "nil"]
ErrorString(msg) == [type |-> "errorString", msg |-> msg]
WrapError(msg, err) == [type |-> "wrapError", msg |-> msg, err |-> err]

\* The messages errors are made with (a message is a sequence of words).
Messages == {<<"timeout">>, <<"conflict">>, <<"refused">>, <<"gone">>}

\* Whether the storage GVR's plan config has syncEvents set.
SyncEvents(g) == g = "apps/v1/deployments"

VARIABLES
    \* ClusterSynchro fields
    closeOnce,                \* "fresh" | "running" | "done"
    closer,                   \* number of close(closer) executed; closed iff > 0
    closed,                   \* BOOLEAN: the publisher has closed `closed`
    updateStatusCh,           \* [buf: 0..1, closes: Nat]
    startRunnerCh,            \* [id: Nat, closed: BOOLEAN] (a replaced channel was closed)
    stopRunnerCh,             \* [id: Nat, closed: BOOLEAN]
    waitGroup,                \* number of wait-group workers that have not returned
    runnerLock,               \* "free" | "refresh"
    handlerStopCh,            \* 0 = nil, else the id of the channel
    handlerOpen,              \* ids of handlerStopCh instances made and not closed
    storageResourceVersions,  \* storage GVR -> [Resources, Events]
    storageResourceSynchros,  \* storage GVR -> index into synchros
    syncResources,            \* Nil or a set of sync GVRs
    setSyncResourcesCh,       \* 0..1
    groupResourceStatus,      \* Nil or sync GVR -> condition
    runningCondition,         \* [Status, Reason]
    healthyCondition,         \* [Status, Reason]
    \* callers
    pcRun, shutdown, pcShutdown, updateStatusArg, terminalWrites,
    \* goroutines
    pcWatchdog,
    pcPublisher, pubStatus, pubTodo, lastStatus,
    updater,                  \* the ClusterStatusUpdater as the publisher has used it
    pcMonitor,
    pcRunner, runnerSel,
    stopWatchers,             \* handler id -> [pc, sel]: the goroutine of lines 515-522
    discovery,                \* handler id -> "starting" | "running" | "exited"
    pcRefresher, refPlan, refTodo, refRemoved, refClosing, refClean, refDeleted,
    refGVRs, lastRefresh,
    cleanCalls,               \* storage GVR -> CleanClusterResource calls since it left the plans
    \* reconcilers
    synchros,                 \* sequence of reconciler instances
    starts,                   \* <<instance, handler id>> -> number of Start calls
    startsAlive,              \* set of <<instance, handler id>>: Start not returned
    \* storage package
    exception                 \* an error value and what IsRecoverableException said of it

synchroVars == <<closeOnce, closer, closed, updateStatusCh, startRunnerCh, stopRunnerCh,
                 waitGroup, runnerLock, handlerStopCh, handlerOpen,
                 storageResourceVersions, storageResourceSynchros, syncResources,
                 setSyncResourcesCh, groupResourceStatus, runningCondition,
                 healthyCondition>>
callerVars == <<pcRun, shutdown, pcShutdown, updateStatusArg, terminalWrites>>
publisherVars == <<pcPublisher, pubStatus, pubTodo, lastStatus, updater>>
runnerVars == <<pcRunner, runnerSel>>
refreshVars == <<pcRefresher, refPlan, refTodo, refRemoved, refClosing, refClean,
                 refDeleted, refGVRs, lastRefresh, cleanCalls>>
reconcilerVars == <<synchros, starts, startsAlive>>

vars == <<synchroVars, callerVars, pcWatchdog, exception, publisherVars, pcMonitor, runnerVars,
          stopWatchers, discovery, refreshVars, reconcilerVars>>

\* ----------------------------------------------------------------- helpers

Closed(ch) == ch > 0

\* A condition of the cluster status.
Condition(status, reason) == [Status |-> status, Reason |-> reason]

\* A sync condition of GroupResourceStatus.
SyncCondition(status, reason, message) ==
    [Status |-> status, Reason |-> reason, Message |-> message,
     InitialListPhase |-> ""]

\* initWithResourceVersions: every loaded entry gets both submaps.
initWithResourceVersions(resourceversions) ==
    [g \in DOMAIN resourceversions |->
        [Resources |-> IF resourceversions[g].Resources.nil
                       THEN MakeMap({}) ELSE resourceversions[g].Resources,
         Events |-> IF resourceversions[g].Events.nil
                    THEN MakeMap({}) ELSE resourceversions[g].Events]]

\* The mutant of updateStatus: the channel takes every notification.
updateStatusUnbounded(ch) == [ch EXCEPT !.buf = @ + 1]

\* updateStatus: a non-blocking send on the single-slot updateStatusCh.
updateStatus(ch) == IF ch.buf = 0 THEN [ch EXCEPT !.buf = 1] ELSE ch

\* One more call of updateStatus: the calls are that much ahead of the calls of
\* UpdateClusterStatus (counted up to 2 ahead, which is as far as a call can be
\* answered: one notification buffered and one being handled).
Notified(u) == [u EXCEPT !.lead = IF @ < 2 THEN @ + 1 ELSE 2]

\* One call of UpdateClusterStatus, which returned an error or not; err tells
\* whether the last call failed and whether a call was made after a failed one.
Called(u, failed) ==
    [lead |-> u.lead - 1,
     err |-> IF failed THEN "failed"
             ELSE IF u.err = "none" THEN "none" ELSE "recovered"]

\* The mutant of resetSyncResources: nothing is sent.
resetSyncResourcesNot(ch) == ch

\* resetSyncResources: a non-blocking send on the single-slot setSyncResourcesCh.
resetSyncResources(ch) == IF ch = 0 THEN 1 ELSE ch

\* NewRecoverableException, part_000 lines 67-69: the error is embedded in a
\* storageRecoverableExceptionError.
NewRecoverableException(err) ==
    [type |-> "storageRecoverableExceptionError", error |-> err]

\* The mutant of IsRecoverableException: a marker anywhere in the chain counts.
RECURSIVE IsRecoverableInChain(_)
IsRecoverableInChain(err) ==
    CASE err.type = "storageRecoverableExceptionError" -> TRUE
      [] err.type = "wrapError" -> IsRecoverableInChain(err.err)
      [] OTHER -> FALSE

\* IsRecoverableException, part_000 lines 71-74: a type assertion on the value itself.
IsRecoverableException(err) == err.type = "storageRecoverableExceptionError"

\* Whether err.Error() returns (it panics when the chain ends in nil).
RECURSIVE HasMessage(_)
HasMessage(err) ==
    CASE err.type = "nil" -> FALSE
      [] err.type = "errorString" -> TRUE
      [] err.type = "wrapError" -> HasMessage(err.err)
      [] OTHER -> HasMessage(err.error)

\* err.Error(): the marker embeds the error, so it answers with the error's message.
RECURSIVE ErrorMessage(_)
ErrorMessage(err) ==
    CASE err.type = "errorString" -> err.msg
      [] err.type = "wrapError" -> err.msg \o ErrorMessage(err.err)
      [] OTHER -> ErrorMessage(err.error)

\* How many wrappers an error value has.
RECURSIVE WrapDepth(_)
WrapDepth(err) ==
    CASE err.type = "wrapError" -> 1 + WrapDepth(err.err)
      [] err.type = "storageRecoverableExceptionError" -> 1 + WrapDepth(err.error)
      [] OTHER -> 0

\* What is kept of the refresh in progress or of the last one: its plan, the storage
\* GVRs registered when it began, the sync GVRs Merge reported deleted, the storage
\* GVRs whose Close it saw complete, those whose creation failed, those it cleaned,
\* those whose clean failed, and how far it got.
RefreshLog(plan, registered, state) ==
    [plan |-> plan, registered |-> registered, deleted |-> {}, observed |-> {},
     createFailed |-> {}, cleaned |-> {}, cleanFailed |-> {}, state |-> state]

\* No error value made yet.
NoException ==
    [err |-> NilError, made |-> "none", asked |-> FALSE, said |-> FALSE,
     saidOfTwin |-> FALSE]

\* ------------------------------------------------------------------- Init

\* New: the state after construction, given what storage returned.
InitWith(resourceversions) ==
    /\ closeOnce = "fresh"
    /\ closer = 0
    /\ closed = FALSE
    /\ updateStatusCh = [buf |-> 0, closes |-> 0]
    /\ startRunnerCh = [id |-> 0, closed |-> FALSE]
    /\ stopRunnerCh = [id |-> 0, closed |-> FALSE]
    /\ waitGroup = 0
    /\ runnerLock = "free"
    /\ handlerStopCh = 0
    /\ handlerOpen = {}
    /\ storageResourceVersions = initWithResourceVersions(resourceversions)
    /\ storageResourceSynchros = <<>>
    /\ syncResources = NilResources
    /\ setSyncResourcesCh = 0
    /\ groupResourceStatus = NilStatus
    /\ runningCondition = Condition("False", "Pending")
    /\ healthyCondition = Condition("Unknown", "MonitorStop")
    /\ pcRun = "idle"
    /\ shutdown = FALSE
    /\ pcShutdown = [c \in Callers |-> "idle"]
    /\ updateStatusArg = [c \in Callers |-> FALSE]
    /\ terminalWrites = 0
    /\ pcWatchdog = "none"
    /\ pcPublisher = "none"
    /\ pubStatus = [Conditions |-> <<>>, SyncResources |-> NilStatus]
    /\ pubTodo = {}
    /\ lastStatus = [Conditions |-> <<>>, SyncResources |-> NilStatus]
    /\ updater = [lead |-> 0, err |-> "none"]
    /\ pcMonitor = "none"
    /\ pcRunner = "none"
    /\ runnerSel = 0
    /\ stopWatchers = <<>>
    /\ discovery = <<>>
    /\ pcRefresher = "none"
    /\ refPlan = <<>>
    /\ refTodo = {}
    /\ refRemoved = {}
    /\ refClosing = Nil
    /\ refClean = {}
    /\ refDeleted = {}
    /\ refGVRs = <<>>
    /\ lastRefresh = RefreshLog({}, {}, "none")
    /\ cleanCalls = [g \in StorageGVRs |-> 0]
    /\ synchros = <<>>
    /\ starts = <<>>
    /\ startsAlive = {}
    /\ exception = NoException

Init == \E rv \in PersistedVersions : InitWith(rv)


\* -------------------------------------------------------------------- Run

\* Run, lines 222-230: the running condition is stored first.
RunStore ==
    /\ pcRun = "idle"
    /\ runningCondition' = Condition("True", "Running")
    /\ pcRun' = "startMonitor"
    /\ UNCHANGED <<closeOnce, closer, closed, updateStatusCh, startRunnerCh, stopRunnerCh,
                   waitGroup, runnerLock, handlerStopCh, handlerOpen,
                   storageResourceVersions, storageResourceSynchros, syncResources,
                   setSyncResourcesCh, groupResourceStatus, healthyCondition>>
    /\ UNCHANGED <<shutdown, pcShutdown, updateStatusArg, terminalWrites>>
    /\ UNCHANGED <<pcWatchdog, exception, publisherVars, pcMonitor, runnerVars, stopWatchers,
                   discovery, refreshVars, reconcilerVars>>

\* Run, line 232: s.waitGroup.Start(s.monitor)
RunStartMonitor ==
    /\ pcRun = "startMonitor"
    /\ waitGroup' = waitGroup + 1
    /\ pcMonitor' = "check"
    /\ pcRun' = "startRunner"
    /\ UNCHANGED <<closeOnce, closer, closed, updateStatusCh, startRunnerCh, stopRunnerCh,
                   runnerLock, handlerStopCh, handlerOpen,
                   storageResourceVersions, storageResourceSynchros, syncResources,
                   setSyncResourcesCh, groupResourceStatus, runningCondition,
                   healthyCondition>>
    /\ UNCHANGED <<shutdown, pcShutdown, updateStatusArg, terminalWrites>>
    /\ UNCHANGED <<pcWatchdog, exception, publisherVars, runnerVars, stopWatchers,
                   discovery, refreshVars, reconcilerVars>>

\* Run, line 233: s.waitGroup.Start(s.runner)
RunStartRunner ==
    /\ pcRun = "startRunner"
    /\ waitGroup' = waitGroup + 1
    /\ pcRunner' = "loop"
    /\ pcRun' = "startPublisher"
    /\ UNCHANGED <<closeOnce, closer, closed, updateStatusCh, startRunnerCh, stopRunnerCh,
                   runnerLock, handlerStopCh, handlerOpen,
                   storageResourceVersions, storageResourceSynchros, syncResources,
                   setSyncResourcesCh, groupResourceStatus, runningCondition,
                   healthyCondition>>
    /\ UNCHANGED <<shutdown, pcShutdown, updateStatusArg, terminalWrites>>
    /\ UNCHANGED <<pcWatchdog, exception, publisherVars, pcMonitor, runnerSel, stopWatchers,
                   discovery, refreshVars, reconcilerVars>>

\* Run, lines 235-245: the status publisher goroutine is launched.
RunStartPublisher ==
    /\ pcRun = "startPublisher"
    /\ pcPublisher' = "recv"
    /\ pcRun' = "select"
    /\ UNCHANGED <<synchroVars, shutdown, pcShutdown, updateStatusArg, terminalWrites>>
    /\ UNCHANGED <<pcWatchdog, exception, pubStatus, pubTodo, lastStatus, updater, pcMonitor, runnerVars,
                   stopWatchers, discovery, refreshVars, reconcilerVars>>

\* The caller of Run closes the `shutdown` channel it passed.
CloseShutdown ==
    /\ pcRun # "idle"
    /\ shutdown = FALSE
    /\ shutdown' = TRUE
    /\ UNCHANGED <<synchroVars, pcRun, pcShutdown, updateStatusArg, terminalWrites>>
    /\ UNCHANGED <<pcWatchdog, exception, publisherVars, pcMonitor, runnerVars, stopWatchers,
                   discovery, refreshVars, reconcilerVars>>

\* Run, lines 247-249: case <-s.closer
RunSelectCloser ==
    /\ pcRun = "select"
    /\ Closed(closer)
    /\ pcRun' = "waitClosed"
    /\ UNCHANGED <<synchroVars, shutdown, pcShutdown, updateStatusArg, terminalWrites>>
    /\ UNCHANGED <<pcWatchdog, exception, publisherVars, pcMonitor, runnerVars, stopWatchers,
                   discovery, refreshVars, reconcilerVars>>

\* Run, lines 250-251: case <-shutdown: s.Shutdown(true)
RunSelectShutdown ==
    /\ pcRun = "select"
    /\ shutdown
    /\ pcRun' = "inShutdown"
    /\ pcShutdown' = [pcShutdown EXCEPT !["run"] = "once"]
    /\ updateStatusArg' = [updateStatusArg EXCEPT !["run"] = TRUE]
    /\ UNCHANGED <<synchroVars, shutdown, terminalWrites>>
    /\ UNCHANGED <<pcWatchdog, exception, publisherVars, pcMonitor, runnerVars, stopWatchers,
                   discovery, refreshVars, reconcilerVars>>

\* Run, line 249: <-s.closed, then Run returns.
RunWaitClosed ==
    /\ pcRun = "waitClosed"
    /\ closed
    /\ pcRun' = "done"
    /\ UNCHANGED <<synchroVars, shutdown, pcShutdown, updateStatusArg, terminalWrites>>
    /\ UNCHANGED <<pcWatchdog, exception, publisherVars, pcMonitor, runnerVars, stopWatchers,
                   discovery, refreshVars, reconcilerVars>>

\* --------------------------------------------------------------- Shutdown

\* An external caller calls Shutdown(u).
ShutdownCall(c, u) ==
    /\ c # "run"
    /\ pcShutdown[c] = "idle"
    /\ pcShutdown' = [pcShutdown EXCEPT ![c] = "once"]
    /\ updateStatusArg' = [updateStatusArg EXCEPT ![c] = u]
    /\ UNCHANGED <<synchroVars, pcRun, shutdown, terminalWrites>>
    /\ UNCHANGED <<pcWatchdog, exception, publisherVars, pcMonitor, runnerVars, stopWatchers,
                   discovery, refreshVars, reconcilerVars>>

\* The mutant of OnceMayRun: a test of "not finished" instead of "not begun".
OnceMayRunUnlessDone == closeOnce # "done"

\* sync.Once: the body runs for the first caller of Do only.
OnceMayRun == closeOnce = "fresh"

\* Shutdown, line 256: s.closeOnce.Do. The first caller runs the body; a caller that
\* finds the body running blocks in Do; one that finds it done goes on to line 311.
OnceEnter(c) ==
    /\ pcShutdown[c] = "once"
    /\ \/ /\ OnceMayRun
          /\ closeOnce' = "running"
          /\ pcShutdown' = [pcShutdown EXCEPT ![c] = "close"]
       \/ /\ closeOnce = "done"
          /\ closeOnce' = closeOnce
          /\ pcShutdown' = [pcShutdown EXCEPT ![c] = "waitClosed"]
    /\ UNCHANGED <<closer, closed, updateStatusCh, startRunnerCh, stopRunnerCh,
                   waitGroup, runnerLock, handlerStopCh, handlerOpen,
                   storageResourceVersions, storageResourceSynchros, syncResources,
                   setSyncResourcesCh, groupResourceStatus, runningCondition,
                   healthyCondition>>
    /\ UNCHANGED <<pcRun, shutdown, updateStatusArg, terminalWrites>>
    /\ UNCHANGED <<pcWatchdog, exception, publisherVars, pcMonitor, runnerVars, stopWatchers,
                   discovery, refreshVars, reconcilerVars>>

\* Shutdown, lines 257-294: close(s.closer) and the watchdog goroutine is launched.
BodyCloseCloser(c) ==
    /\ pcShutdown[c] = "close"
    /\ closer' = closer + 1
    /\ pcWatchdog' = "running"
    /\ pcShutdown' = [pcShutdown EXCEPT ![c] = "wait"]
    /\ UNCHANGED <<closeOnce, closed, updateStatusCh, startRunnerCh, stopRunnerCh,
                   waitGroup, runnerLock, handlerStopCh, handlerOpen,
                   storageResourceVersions, storageResourceSynchros, syncResources,
                   setSyncResourcesCh, groupResourceStatus, runningCondition,
                   healthyCondition>>
    /\ UNCHANGED <<pcRun, shutdown, updateStatusArg, terminalWrites>>
    /\ UNCHANGED <<exception, publisherVars, pcMonitor, runnerVars, stopWatchers,
                   discovery, refreshVars, reconcilerVars>>

\* wait.Group.Wait returns when every started worker has returned.
WaitGroupDone == waitGroup = 0

\* Shutdown, line 296: s.waitGroup.Wait()
BodyWait(c) ==
    /\ pcShutdown[c] = "wait"
    /\ WaitGroupDone
    /\ pcShutdown' = [pcShutdown EXCEPT ![c] = "store"]
    /\ UNCHANGED <<synchroVars, pcRun, shutdown, updateStatusArg, terminalWrites>>
    /\ UNCHANGED <<pcWatchdog, exception, publisherVars, pcMonitor, runnerVars, stopWatchers,
                   discovery, refreshVars, reconcilerVars>>

\* Shutdown, lines 298-305: the terminal running condition is stored.
BodyStore(c) ==
    /\ pcShutdown[c] = "store"
    /\ runningCondition' = Condition("False", "Shutdown")
    /\ terminalWrites' = terminalWrites + 1
    /\ pcShutdown' = [pcShutdown EXCEPT ![c] =
                        IF updateStatusArg[c] THEN "update" ELSE "closeCh"]
    /\ UNCHANGED <<closeOnce, closer, closed, updateStatusCh, startRunnerCh, stopRunnerCh,
                   waitGroup, runnerLock, handlerStopCh, handlerOpen,
                   storageResourceVersions, storageResourceSynchros, syncResources,
                   setSyncResourcesCh, groupResourceStatus, healthyCondition>>
    /\ UNCHANGED <<pcRun, shutdown, updateStatusArg>>
    /\ UNCHANGED <<pcWatchdog, exception, publisherVars, pcMonitor, runnerVars, stopWatchers,
                   discovery, refreshVars, reconcilerVars>>

\* Shutdown, lines 306-308: if updateStatus { s.updateStatus() }
BodyUpdateStatus(c) ==
    /\ pcShutdown[c] = "update"
    /\ updateStatusCh' = updateStatus(updateStatusCh)
    /\ updater' = Notified(updater)
    /\ pcShutdown' = [pcShutdown EXCEPT ![c] = "closeCh"]
    /\ UNCHANGED <<closeOnce, closer, closed, startRunnerCh, stopRunnerCh,
                   waitGroup, runnerLock, handlerStopCh, handlerOpen,
                   storageResourceVersions, storageResourceSynchros, syncResources,
                   setSyncResourcesCh, groupResourceStatus, runningCondition,
                   healthyCondition>>
    /\ UNCHANGED <<pcRun, shutdown, updateStatusArg, terminalWrites>>
    /\ UNCHANGED <<pcWatchdog, exception, pcPublisher, pubStatus, pubTodo, lastStatus,
                   pcMonitor, runnerVars, stopWatchers, discovery, refreshVars,
                   reconcilerVars>>

\* Shutdown, lines 309-310: close(s.updateStatusCh); the body is over and Do returns
\* to the caller that ran it, which goes on to line 311.
BodyCloseStatusCh(c) ==
    /\ pcShutdown[c] = "closeCh"
    /\ updateStatusCh' = [updateStatusCh EXCEPT !.closes = @ + 1]
    /\ closeOnce' = "done"
    /\ pcShutdown' = [pcShutdown EXCEPT ![c] = "bodyDone"]
    /\ UNCHANGED <<closer, closed, startRunnerCh, stopRunnerCh,
                   waitGroup, runnerLock, handlerStopCh, handlerOpen,
                   storageResourceVersions, storageResourceSynchros, syncResources,
                   setSyncResourcesCh, groupResourceStatus, runningCondition,
                   healthyCondition>>
    /\ UNCHANGED <<pcRun, shutdown, updateStatusArg, terminalWrites>>
    /\ UNCHANGED <<pcWatchdog, exception, publisherVars, pcMonitor, runnerVars, stopWatchers,
                   discovery, refreshVars, reconcilerVars>>

\* Shutdown, line 311: <-s.closed, then Shutdown returns (and Run with it, when the
\* call is Run's own).
ShutdownReturn(c) ==
    /\ pcShutdown[c] \in {"waitClosed", "bodyDone"}
    /\ closed
    /\ pcShutdown' = [pcShutdown EXCEPT ![c] = "done"]
    /\ pcRun' = IF c = "run" THEN "done" ELSE pcRun
    /\ UNCHANGED <<synchroVars, shutdown, updateStatusArg, terminalWrites>>
    /\ UNCHANGED <<pcWatchdog, exception, publisherVars, pcMonitor, runnerVars, stopWatchers,
                   discovery, refreshVars, reconcilerVars>>

\* Shutdown, lines 260-294: the watchdog only logs; it returns once `closed` is closed.
WatchdogExit ==
    /\ pcWatchdog = "running"
    /\ closed
    /\ pcWatchdog' = "exited"
    /\ UNCHANGED <<synchroVars, callerVars, exception, publisherVars, pcMonitor,
                   runnerVars, stopWatchers, discovery, refreshVars, reconcilerVars>>


\* -------------------------------------------------------- status publisher

\* The order in which genClusterStatus walks the sync conditions.
Rank(gvr) ==
    CASE gvr = "apps/v1/deployments" -> 1
      [] gvr = "batch/v1/cronjobs" -> 2
      [] OTHER -> 3

FirstOf(gvrs) == CHOOSE g \in gvrs : \A h \in gvrs : Rank(g) <= Rank(h)

\* Run, line 238: a notification is received from updateStatusCh.
PublisherReceive ==
    /\ pcPublisher = "recv"
    /\ updateStatusCh.buf = 1
    /\ updateStatusCh' = [updateStatusCh EXCEPT !.buf = 0]
    /\ pcPublisher' = "load"
    /\ UNCHANGED <<closeOnce, closer, closed, startRunnerCh, stopRunnerCh,
                   waitGroup, runnerLock, handlerStopCh, handlerOpen,
                   storageResourceVersions, storageResourceSynchros, syncResources,
                   setSyncResourcesCh, groupResourceStatus, runningCondition,
                   healthyCondition>>
    /\ UNCHANGED <<callerVars, pcWatchdog, exception, pubStatus, pubTodo, lastStatus, updater, pcMonitor,
                   runnerVars, stopWatchers, discovery, refreshVars, reconcilerVars>>

\* genClusterStatus, lines 572-587: the two conditions are loaded, and the group
\* resource status when it is set (LoadGroupResourcesStatuses is a deep copy).
PublisherLoad ==
    /\ pcPublisher = "load"
    /\ pubStatus' = [Conditions |-> <<runningCondition, healthyCondition>>,
                     SyncResources |-> groupResourceStatus]
    /\ pubTodo' = IF groupResourceStatus.nil THEN {} ELSE DOMAIN groupResourceStatus.conds
    /\ pcPublisher' = "conds"
    /\ UNCHANGED <<synchroVars, callerVars, pcWatchdog, exception, lastStatus, updater, pcMonitor,
                   runnerVars, stopWatchers, discovery, refreshVars, reconcilerVars>>

\* genClusterStatus, lines 590-621: one sync condition, from the reconciler registered
\* for its storage GVR when there is one, else from what the condition holds.
ConditionOf(gvr, cond, registry, instances) ==
    IF StorageGVROf(gvr) \in DOMAIN registry
    THEN LET synchro == instances[registry[StorageGVROf(gvr)]]
         IN  [Status |-> synchro.status.Status,
              Reason |-> synchro.status.Reason,
              Message |-> synchro.status.Message,
              InitialListPhase |-> synchro.status.InitialListPhase]
    ELSE [Status |-> IF cond.Status = "" THEN "Unknown" ELSE cond.Status,
          Reason |-> IF cond.Reason = "" THEN "ResourceSynchroNotFound" ELSE cond.Reason,
          Message |-> IF cond.Message = "" THEN "not found resource synchro"
                      ELSE cond.Message,
          InitialListPhase |-> cond.InitialListPhase]

\* genClusterStatus, lines 588-623: the next sync condition is filled in.
PublisherFill ==
    /\ pcPublisher = "conds"
    /\ pubTodo # {}
    /\ LET gvr == FirstOf(pubTodo)
       IN  /\ pubStatus' = [pubStatus EXCEPT !.SyncResources.conds[gvr] =
                               ConditionOf(gvr, @, storageResourceSynchros, synchros)]
           /\ pubTodo' = pubTodo \ {gvr}
    /\ UNCHANGED <<synchroVars, callerVars, pcWatchdog, exception, pcPublisher, lastStatus, updater,
                   pcMonitor, runnerVars, stopWatchers, discovery, refreshVars,
                   reconcilerVars>>

\* Run, lines 240-242: UpdateClusterStatus is called with the generated status; an
\* error it returns is logged and the loop goes on.
PublisherUpdate(failed) ==
    /\ pcPublisher = "conds"
    /\ pubTodo = {}
    /\ lastStatus' = pubStatus
    /\ updater' = Called(updater, failed)
    /\ pcPublisher' = "recv"
    /\ UNCHANGED <<synchroVars, callerVars, pcWatchdog, exception, pubStatus, pubTodo,
                   pcMonitor, runnerVars, stopWatchers, discovery, refreshVars,
                   reconcilerVars>>

\* The mutant of RangeEnds: the loop ends at the close, whatever is buffered.
RangeEndsAtClose(ch) == ch.closes > 0

\* Run, line 238: `for range` over a channel ends once the channel is closed and
\* the value it buffered has been received.
RangeEnds(ch) == ch.buf = 0 /\ ch.closes > 0

\* Run, lines 236-244: updateStatusCh is closed and drained: close(s.closed).
PublisherExit ==
    /\ pcPublisher = "recv"
    /\ RangeEnds(updateStatusCh)
    /\ closed' = TRUE
    /\ pcPublisher' = "exited"
    /\ UNCHANGED <<closeOnce, closer, updateStatusCh, startRunnerCh, stopRunnerCh,
                   waitGroup, runnerLock, handlerStopCh, handlerOpen,
                   storageResourceVersions, storageResourceSynchros, syncResources,
                   setSyncResourcesCh, groupResourceStatus, runningCondition,
                   healthyCondition>>
    /\ UNCHANGED <<callerVars, pcWatchdog, exception, pubStatus, pubTodo, lastStatus, updater, pcMonitor,
                   runnerVars, stopWatchers, discovery, refreshVars, reconcilerVars>>

\* ---------------------------------------------------------------- monitor

\* startRunner, lines 538-542: a closed stopRunnerCh is replaced by a new one.
startRunnerResetStop(stop) ==
    IF stop.closed THEN [id |-> stop.id + 1, closed |-> FALSE] ELSE stop

\* startRunner, lines 544-548: startRunnerCh is closed unless it is already.
startRunnerCloseStart(start) == [start EXCEPT !.closed = TRUE]

\* stopRunner, lines 552-556: a closed startRunnerCh is replaced by a new one.
stopRunnerResetStart(start) ==
    IF start.closed THEN [id |-> start.id + 1, closed |-> FALSE] ELSE start

\* stopRunner, lines 558-562: stopRunnerCh is closed unless it is already.
stopRunnerCloseStop(stop) == [stop EXCEPT !.closed = TRUE]

\* The monitor sees the cluster's health change (its loop ends once closer is closed):
\* healthy triggers startRunner and unhealthy stopRunner.
MonitorCheck(ready) ==
    /\ pcMonitor = "check"
    /\ ~Closed(closer)
    /\ healthyCondition.Status # (IF ready THEN "True" ELSE "False")
    /\ IF ready
       THEN stopRunnerCh.closed => stopRunnerCh.id < MaxChanGen
       ELSE startRunnerCh.closed => startRunnerCh.id < MaxChanGen
    /\ pcMonitor' = IF ready THEN "start1" ELSE "stop1"
    /\ UNCHANGED <<synchroVars, callerVars, pcWatchdog, exception, publisherVars, runnerVars,
                   stopWatchers, discovery, refreshVars, reconcilerVars>>

\* startRunner, first select.
MonitorStartRunner1 ==
    /\ pcMonitor = "start1"
    /\ stopRunnerCh' = startRunnerResetStop(stopRunnerCh)
    /\ pcMonitor' = "start2"
    /\ UNCHANGED <<closeOnce, closer, closed, updateStatusCh, startRunnerCh,
                   waitGroup, runnerLock, handlerStopCh, handlerOpen,
                   storageResourceVersions, storageResourceSynchros, syncResources,
                   setSyncResourcesCh, groupResourceStatus, runningCondition,
                   healthyCondition>>
    /\ UNCHANGED <<callerVars, pcWatchdog, exception, publisherVars, runnerVars,
                   stopWatchers, discovery, refreshVars, reconcilerVars>>

\* startRunner, second select.
MonitorStartRunner2 ==
    /\ pcMonitor = "start2"
    /\ startRunnerCh' = startRunnerCloseStart(startRunnerCh)
    /\ pcMonitor' = "healthy"
    /\ UNCHANGED <<closeOnce, closer, closed, updateStatusCh, stopRunnerCh,
                   waitGroup, runnerLock, handlerStopCh, handlerOpen,
                   storageResourceVersions, storageResourceSynchros, syncResources,
                   setSyncResourcesCh, groupResourceStatus, runningCondition,
                   healthyCondition>>
    /\ UNCHANGED <<callerVars, pcWatchdog, exception, publisherVars, runnerVars,
                   stopWatchers, discovery, refreshVars, reconcilerVars>>

\* stopRunner, first select.
MonitorStopRunner1 ==
    /\ pcMonitor = "stop1"
    /\ startRunnerCh' = stopRunnerResetStart(startRunnerCh)
    /\ pcMonitor' = "stop2"
    /\ UNCHANGED <<closeOnce, closer, closed, updateStatusCh, stopRunnerCh,
                   waitGroup, runnerLock, handlerStopCh, handlerOpen,
                   storageResourceVersions, storageResourceSynchros, syncResources,
                   setSyncResourcesCh, groupResourceStatus, runningCondition,
                   healthyCondition>>
    /\ UNCHANGED <<callerVars, pcWatchdog, exception, publisherVars, runnerVars,
                   stopWatchers, discovery, refreshVars, reconcilerVars>>

\* stopRunner, second select.
MonitorStopRunner2 ==
    /\ pcMonitor = "stop2"
    /\ stopRunnerCh' = stopRunnerCloseStop(stopRunnerCh)
    /\ pcMonitor' = "unhealthy"
    /\ UNCHANGED <<closeOnce, closer, closed, updateStatusCh, startRunnerCh,
                   waitGroup, runnerLock, handlerStopCh, handlerOpen,
                   storageResourceVersions, storageResourceSynchros, syncResources,
                   setSyncResourcesCh, groupResourceStatus, runningCondition,
                   healthyCondition>>
    /\ UNCHANGED <<callerVars, pcWatchdog, exception, publisherVars, runnerVars,
                   stopWatchers, discovery, refreshVars, reconcilerVars>>

\* The check ends: the healthy condition is stored and a status update is asked for.
MonitorUpdateStatus ==
    /\ pcMonitor \in {"healthy", "unhealthy"}
    /\ healthyCondition' = IF pcMonitor = "healthy"
                           THEN Condition("True", "Healthy")
                           ELSE Condition("False", "Unhealthy")
    /\ updateStatusCh' = updateStatus(updateStatusCh)
    /\ updater' = Notified(updater)
    /\ pcMonitor' = "check"
    /\ UNCHANGED <<closeOnce, closer, closed, startRunnerCh, stopRunnerCh,
                   waitGroup, runnerLock, handlerStopCh, handlerOpen,
                   storageResourceVersions, storageResourceSynchros, syncResources,
                   setSyncResourcesCh, groupResourceStatus, runningCondition>>
    /\ UNCHANGED <<callerVars, pcWatchdog, exception, pcPublisher, pubStatus, pubTodo,
                   lastStatus, runnerVars, stopWatchers, discovery, refreshVars,
                   reconcilerVars>>

\* The monitor sees closer closed between two checks and returns.
MonitorExit ==
    /\ pcMonitor = "check"
    /\ Closed(closer)
    /\ healthyCondition' = Condition("Unknown", "MonitorStop")
    /\ waitGroup' = waitGroup - 1
    /\ pcMonitor' = "exited"
    /\ UNCHANGED <<closeOnce, closer, closed, updateStatusCh, startRunnerCh, stopRunnerCh,
                   runnerLock, handlerStopCh, handlerOpen,
                   storageResourceVersions, storageResourceSynchros, syncResources,
                   setSyncResourcesCh, groupResourceStatus, runningCondition>>
    /\ UNCHANGED <<callerVars, pcWatchdog, exception, publisherVars, runnerVars,
                   stopWatchers, discovery, refreshVars, reconcilerVars>>


\* ----------------------------------------------------------------- runner

\* Whether the channel s.startRunnerCh held when its id was `id` is closed now: a
\* replaced channel was closed before it was replaced (lines 553-554).
StartRunnerClosed(id) ==
    id < startRunnerCh.id \/ (id = startRunnerCh.id /\ startRunnerCh.closed)

\* The same for s.stopRunnerCh (lines 539-540).
StopRunnerClosed(id) ==
    id < stopRunnerCh.id \/ (id = stopRunnerCh.id /\ stopRunnerCh.closed)

\* Start is launched with handler channel h on every reconciler of `instances`.
LaunchStarts(instances, h, calls) ==
    [p \in DOMAIN calls \cup {<<i, h>> : i \in instances} |->
        (IF p \in DOMAIN calls THEN calls[p] ELSE 0)
        + (IF p[1] \in instances /\ p[2] = h THEN 1 ELSE 0)]

Registered == {storageResourceSynchros[g] : g \in DOMAIN storageResourceSynchros}

\* runner, lines 494-499: the first select is entered on the current startRunnerCh.
RunnerEnter ==
    /\ pcRunner = "loop"
    /\ runnerSel' = startRunnerCh.id
    /\ pcRunner' = "sel1"
    /\ UNCHANGED <<synchroVars, callerVars, pcWatchdog, exception, publisherVars, pcMonitor,
                   stopWatchers, discovery, refreshVars, reconcilerVars>>

\* runner, line 496: case <-s.startRunnerCh
RunnerSelectStart ==
    /\ pcRunner = "sel1"
    /\ StartRunnerClosed(runnerSel)
    /\ pcRunner' = "sel2"
    /\ UNCHANGED <<synchroVars, callerVars, pcWatchdog, exception, publisherVars, pcMonitor,
                   runnerSel, stopWatchers, discovery, refreshVars, reconcilerVars>>

\* runner, lines 497-498 and 504-505: case <-s.closer: return
RunnerSelectCloser ==
    /\ pcRunner \in {"sel1", "sel2"}
    /\ Closed(closer)
    /\ waitGroup' = waitGroup - 1
    /\ pcRunner' = "exited"
    /\ UNCHANGED <<closeOnce, closer, closed, updateStatusCh, startRunnerCh, stopRunnerCh,
                   runnerLock, handlerStopCh, handlerOpen,
                   storageResourceVersions, storageResourceSynchros, syncResources,
                   setSyncResourcesCh, groupResourceStatus, runningCondition,
                   healthyCondition>>
    /\ UNCHANGED <<callerVars, pcWatchdog, exception, publisherVars, pcMonitor,
                   runnerSel, stopWatchers, discovery, refreshVars, reconcilerVars>>

\* runner, lines 502-503: case <-s.stopRunnerCh: continue
RunnerSelectStop ==
    /\ pcRunner = "sel2"
    /\ stopRunnerCh.closed
    /\ pcRunner' = "loop"
    /\ UNCHANGED <<synchroVars, callerVars, pcWatchdog, exception, publisherVars, pcMonitor,
                   runnerSel, stopWatchers, discovery, refreshVars, reconcilerVars>>

\* runner, line 506: default, when neither channel of the second select is closed.
RunnerSelectDefault ==
    /\ pcRunner = "sel2"
    /\ ~stopRunnerCh.closed
    /\ ~Closed(closer)
    /\ pcRunner' = "pass"
    /\ UNCHANGED <<synchroVars, callerVars, pcWatchdog, exception, publisherVars, pcMonitor,
                   runnerSel, stopWatchers, discovery, refreshVars, reconcilerVars>>

\* The mutant of MakeHandlerStopCh: the channel is made once and used again.
MakeHandlerStopChOnce(current) == IF current = 0 THEN 1 ELSE current

\* runner, line 514: s.handlerStopCh = make(chan struct{})
MakeHandlerStopCh(current) == current + 1

\* runner, lines 509-530, under runnerLock: a new handlerStopCh, the goroutine that
\* closes it, the discovery Start and a Start of every registered reconciler.
RunnerStartPass ==
    /\ pcRunner = "pass"
    /\ runnerLock = "free"
    /\ LET h == MakeHandlerStopCh(handlerStopCh)
       IN  /\ handlerStopCh' = h
           /\ handlerOpen' = handlerOpen \cup {h}
           /\ stopWatchers' = (h :> [pc |-> "spawned", sel |-> 0]) @@ stopWatchers
           /\ discovery' = (h :> "starting") @@ discovery
           /\ starts' = LaunchStarts(Registered, h, starts)
           /\ startsAlive' = startsAlive \cup {<<i, h>> : i \in Registered}
    /\ pcRunner' = "wait"
    /\ UNCHANGED <<closeOnce, closer, closed, updateStatusCh, startRunnerCh, stopRunnerCh,
                   waitGroup, runnerLock,
                   storageResourceVersions, storageResourceSynchros, syncResources,
                   setSyncResourcesCh, groupResourceStatus, runningCondition,
                   healthyCondition>>
    /\ UNCHANGED <<callerVars, pcWatchdog, exception, publisherVars, pcMonitor,
                   runnerSel, refreshVars, synchros>>

\* The mutant of HandlerStopped: the runner waits for the stop signals themselves.
HandlerStopSignalled == stopRunnerCh.closed \/ Closed(closer)

\* runner, line 532: <-s.handlerStopCh returns once the channel is closed.
HandlerStopped == handlerStopCh \notin handlerOpen

\* runner, lines 532-534: the runner leaves Running and loops.
RunnerWait ==
    /\ pcRunner = "wait"
    /\ HandlerStopped
    /\ pcRunner' = "loop"
    /\ UNCHANGED <<synchroVars, callerVars, pcWatchdog, exception, publisherVars, pcMonitor,
                   runnerSel, stopWatchers, discovery, refreshVars, reconcilerVars>>

\* runner, lines 515-519: the goroutine enters its select on the current stopRunnerCh.
WatcherEnter(h) ==
    /\ h \in DOMAIN stopWatchers
    /\ stopWatchers[h].pc = "spawned"
    /\ stopWatchers' = [stopWatchers EXCEPT ![h] = [pc |-> "select", sel |-> stopRunnerCh.id]]
    /\ UNCHANGED <<synchroVars, callerVars, pcWatchdog, exception, publisherVars, pcMonitor,
                   runnerVars, discovery, refreshVars, reconcilerVars>>

\* The mutant of WatcherWoken: the goroutine does not listen to closer.
WatcherWokenByStopOnly(h) == StopRunnerClosed(stopWatchers[h].sel)

\* runner, lines 516-519: closer or the stopRunnerCh the select was entered on.
WatcherWoken(h) == Closed(closer) \/ StopRunnerClosed(stopWatchers[h].sel)

\* runner, line 521: close(s.handlerStopCh)
WatcherClose(h) ==
    /\ h \in DOMAIN stopWatchers
    /\ stopWatchers[h].pc = "select"
    /\ WatcherWoken(h)
    /\ handlerOpen' = handlerOpen \ {handlerStopCh}
    /\ stopWatchers' = [stopWatchers EXCEPT ![h].pc = "done"]
    /\ UNCHANGED <<closeOnce, closer, closed, updateStatusCh, startRunnerCh, stopRunnerCh,
                   waitGroup, runnerLock, handlerStopCh,
                   storageResourceVersions, storageResourceSynchros, syncResources,
                   setSyncResourcesCh, groupResourceStatus, runningCondition,
                   healthyCondition>>
    /\ UNCHANGED <<callerVars, pcWatchdog, exception, publisherVars, pcMonitor,
                   runnerVars, discovery, refreshVars, reconcilerVars>>

\* -------------------------------------------------------------- discovery

\* dynamicDiscovery.Start(h): after its first snapshot it calls AfterStartFunc, which
\* launches the refresher once (New, lines 153-161).
DiscoveryAfterStart(h) ==
    /\ h \in DOMAIN discovery
    /\ discovery[h] = "starting"
    /\ discovery' = [discovery EXCEPT ![h] = "running"]
    /\ pcRefresher' = IF pcRefresher = "none" THEN "wait" ELSE pcRefresher
    /\ UNCHANGED <<synchroVars, callerVars, pcWatchdog, exception, publisherVars, pcMonitor,
                   runnerVars, stopWatchers, refPlan, refTodo, refRemoved, refClosing,
                   refClean, refDeleted, refGVRs, lastRefresh, cleanCalls, reconcilerVars>>

\* The discovered resources change: ResourceMutationHandler is resetSyncResources.
DiscoveryMutation(h) ==
    /\ h \in DOMAIN discovery
    /\ discovery[h] = "running"
    /\ h \in handlerOpen
    /\ setSyncResourcesCh' = resetSyncResources(setSyncResourcesCh)
    /\ UNCHANGED <<closeOnce, closer, closed, updateStatusCh, startRunnerCh, stopRunnerCh,
                   waitGroup, runnerLock, handlerStopCh, handlerOpen,
                   storageResourceVersions, storageResourceSynchros, syncResources,
                   groupResourceStatus, runningCondition, healthyCondition>>
    /\ UNCHANGED <<callerVars, pcWatchdog, exception, publisherVars, pcMonitor,
                   runnerVars, stopWatchers, discovery, refreshVars, reconcilerVars>>

\* dynamicDiscovery.Start(h) returns once h is closed.
DiscoveryExit(h) ==
    /\ h \in DOMAIN discovery
    /\ discovery[h] = "running"
    /\ h \notin handlerOpen
    /\ discovery' = [discovery EXCEPT ![h] = "exited"]
    /\ UNCHANGED <<synchroVars, callerVars, pcWatchdog, exception, publisherVars, pcMonitor,
                   runnerVars, stopWatchers, refreshVars, reconcilerVars>>

\* ------------------------------------------------------------ reconcilers

\* The status a reconciler reports.
SynchroStatus(status, phase) ==
    [Status |-> status, Reason |-> "", Message |-> "", InitialListPhase |-> phase]

\* NewResourceSynchro: a reconciler for storage GVR g, syncing syncResource, with the
\* watermark maps it is handed.
NewResourceSynchro(g, syncResource, resourceVersions, eventVersions) ==
    [gvr |-> g, syncResource |-> syncResource, run |-> "running",
     closeCalled |-> FALSE, done |-> FALSE,
     status |-> SynchroStatus("Pending", "NotStarted"),
     ResourceVersions |-> resourceVersions, Events |-> eventVersions]

\* A started reconciler lists and then watches: its status moves on.
SynchroAdvance(i) ==
    /\ i \in DOMAIN synchros
    /\ synchros[i].run = "running"
    /\ ~synchros[i].closeCalled
    /\ \E h \in handlerOpen : <<i, h>> \in startsAlive
    /\ synchros[i].status.InitialListPhase # "Completed"
    /\ synchros' = [synchros EXCEPT ![i].status =
                      IF @.InitialListPhase = "NotStarted"
                      THEN SynchroStatus("Syncing", "InProgress")
                      ELSE SynchroStatus("Syncing", "Completed")]
    /\ UNCHANGED <<synchroVars, callerVars, pcWatchdog, exception, publisherVars, pcMonitor,
                   runnerVars, stopWatchers, discovery, refreshVars, starts, startsAlive>>

\* A reconciler's Run returns once closer is closed or Close was called on it; the
\* completion signal Close returned is closed then.
SynchroRunExit(i) ==
    /\ i \in DOMAIN synchros
    /\ synchros[i].run = "running"
    /\ Closed(closer) \/ synchros[i].closeCalled
    /\ synchros' = [synchros EXCEPT ![i].run = "exited", ![i].done = TRUE,
                                    ![i].status = SynchroStatus("Stop", @.InitialListPhase)]
    /\ waitGroup' = waitGroup - 1
    /\ UNCHANGED <<closeOnce, closer, closed, updateStatusCh, startRunnerCh, stopRunnerCh,
                   runnerLock, handlerStopCh, handlerOpen,
                   storageResourceVersions, storageResourceSynchros, syncResources,
                   setSyncResourcesCh, groupResourceStatus, runningCondition,
                   healthyCondition>>
    /\ UNCHANGED <<callerVars, pcWatchdog, exception, publisherVars, pcMonitor, runnerVars,
                   stopWatchers, discovery, refreshVars, starts, startsAlive>>

\* A reconciler's Start(h) returns once h is closed or the reconciler is closed.
SynchroStartExit(i, h) ==
    /\ <<i, h>> \in startsAlive
    /\ h \notin handlerOpen \/ synchros[i].done
    /\ startsAlive' = startsAlive \ {<<i, h>>}
    /\ UNCHANGED <<synchroVars, callerVars, pcWatchdog, exception, publisherVars, pcMonitor,
                   runnerVars, stopWatchers, discovery, refreshVars, synchros, starts>>


\* ---------------------------------------------------------------- refresh

\* SetResources, lines 314-319.
SetResources(resources) ==
    /\ syncResources' = Resources(resources)
    /\ setSyncResourcesCh' = resetSyncResources(setSyncResourcesCh)
    /\ UNCHANGED <<closeOnce, closer, closed, updateStatusCh, startRunnerCh, stopRunnerCh,
                   waitGroup, runnerLock, handlerStopCh, handlerOpen,
                   storageResourceVersions, storageResourceSynchros,
                   groupResourceStatus, runningCondition, healthyCondition>>
    /\ UNCHANGED <<callerVars, pcWatchdog, exception, publisherVars, pcMonitor,
                   runnerVars, stopWatchers, discovery, refreshVars, reconcilerVars>>

\* NegotiateSyncResources: the fresh status, every negotiated sync GVR Pending.
NegotiatedStatus(resources) ==
    [gvr \in resources |-> SyncCondition("Pending", "SynchroPending", "")]

\* NegotiateSyncResources: the storage GVRs of the plan (storageResourceSyncConfigs).
NegotiatedPlan(resources) == {StorageGVROf(gvr) : gvr \in resources}

\* NegotiateSyncResources: the sync GVR a storage GVR's reconciler reads.
PlannedSyncResource(resources, g) ==
    FirstOf({gvr \in resources : StorageGVROf(gvr) = g})

\* GroupResourceStatus.Merge: the sync GVRs of the last status absent from this one.
MergeDeleted(status, last) ==
    IF last.nil THEN {} ELSE DOMAIN last.conds \ DOMAIN status

\* GroupResourceStatus.Merge: this status, with the deleted ones carried over.
Merge(status, last) ==
    [gvr \in DOMAIN status \cup MergeDeleted(status, last) |->
        IF gvr \in DOMAIN status THEN status[gvr] ELSE last.conds[gvr]]

\* GetStorageGVRToSyncGVRs, line 361.
GetStorageGVRToSyncGVRs(status) ==
    [g \in StorageGVRs |-> {gvr \in DOMAIN status : StorageGVROf(gvr) = g}]

\* The mutant of updateSyncConditions: only one sync GVR of the storage GVR is updated.
updateSyncConditionsOfOne(status, toSync, g, st, reason, message) ==
    [status EXCEPT !.conds =
        [gvr \in DOMAIN status.conds |->
            IF toSync[g] # {} /\ gvr = FirstOf(toSync[g])
            THEN SyncCondition(st, reason, message) ELSE status.conds[gvr]]]

\* updateSyncConditions, lines 362-366: every sync GVR of the storage GVR is updated.
updateSyncConditions(status, toSync, g, st, reason, message) ==
    [status EXCEPT !.conds =
        [gvr \in DOMAIN status.conds |->
            IF gvr \in toSync[g] THEN SyncCondition(st, reason, message)
            ELSE status.conds[gvr]]]

\* refreshSyncResources returns: its locals are gone.
RefreshReturns ==
    /\ refPlan' = <<>>
    /\ refTodo' = {}
    /\ refRemoved' = {}
    /\ refClosing' = Nil
    /\ refClean' = {}
    /\ refDeleted' = {}
    /\ refGVRs' = <<>>

\* syncResourcesRefresher, lines 331-335: a wakeup is taken from setSyncResourcesCh.
RefresherWake ==
    /\ pcRefresher = "wait"
    /\ setSyncResourcesCh = 1
    /\ setSyncResourcesCh' = 0
    /\ pcRefresher' = "check"
    /\ UNCHANGED <<closeOnce, closer, closed, updateStatusCh, startRunnerCh, stopRunnerCh,
                   waitGroup, runnerLock, handlerStopCh, handlerOpen,
                   storageResourceVersions, storageResourceSynchros, syncResources,
                   groupResourceStatus, runningCondition, healthyCondition>>
    /\ UNCHANGED <<callerVars, pcWatchdog, exception, publisherVars, pcMonitor, runnerVars,
                   stopWatchers, discovery, refPlan, refTodo, refRemoved, refClosing,
                   refClean, refDeleted, refGVRs, lastRefresh, cleanCalls, reconcilerVars>>

\* syncResourcesRefresher, lines 332-333 and 338-339: case <-s.closer: return
RefresherExit ==
    /\ pcRefresher \in {"wait", "check"}
    /\ Closed(closer)
    /\ pcRefresher' = "exited"
    /\ UNCHANGED <<synchroVars, callerVars, pcWatchdog, exception, publisherVars, pcMonitor,
                   runnerVars, stopWatchers, discovery, refPlan, refTodo, refRemoved,
                   refClosing, refClean, refDeleted, refGVRs, lastRefresh, cleanCalls,
                   reconcilerVars>>

\* The mutant of NotSet: the loaded resources are never found unset.
NotSetNever(resources) == FALSE

\* refreshSyncResources, lines 347-350: the loaded syncResources are the nil slice
\* New stored.
NotSet(resources) == resources.nil

\* refreshSyncResources, lines 346-350: nothing is done until resources are set.
RefreshUnset ==
    /\ pcRefresher = "check"
    /\ ~Closed(closer)
    /\ NotSet(syncResources)
    /\ pcRefresher' = "wait"
    /\ lastRefresh' = RefreshLog({}, DOMAIN storageResourceSynchros, "unset")
    /\ UNCHANGED <<synchroVars, callerVars, pcWatchdog, exception, publisherVars, pcMonitor,
                   runnerVars, stopWatchers, discovery, refPlan, refTodo, refRemoved,
                   refClosing, refClean, refDeleted, refGVRs, cleanCalls, reconcilerVars>>

\* refreshSyncResources, lines 351-361: the plan is negotiated and merged with the
\* last status, and the merged status is stored.
RefreshNegotiate ==
    /\ pcRefresher = "check"
    /\ ~Closed(closer)
    /\ ~NotSet(syncResources)
    /\ LET status == NegotiatedStatus(syncResources.gvrs)
           merged == Merge(status, groupResourceStatus)
       IN  /\ refDeleted' = MergeDeleted(status, groupResourceStatus)
           /\ groupResourceStatus' = Status(merged)
           /\ refGVRs' = GetStorageGVRToSyncGVRs(merged)
    /\ refPlan' = [g \in NegotiatedPlan(syncResources.gvrs) |->
                      PlannedSyncResource(syncResources.gvrs, g)]
    /\ refTodo' = NegotiatedPlan(syncResources.gvrs)
    /\ lastRefresh' =
           [RefreshLog(NegotiatedPlan(syncResources.gvrs),
                       DOMAIN storageResourceSynchros, "running")
               EXCEPT !.deleted = MergeDeleted(NegotiatedStatus(syncResources.gvrs),
                                               groupResourceStatus)]
    /\ cleanCalls' = [g \in StorageGVRs |->
                         IF g \in NegotiatedPlan(syncResources.gvrs) THEN 0
                         ELSE cleanCalls[g]]
    /\ pcRefresher' = "lock"
    /\ UNCHANGED <<closeOnce, closer, closed, updateStatusCh, startRunnerCh, stopRunnerCh,
                   waitGroup, runnerLock, handlerStopCh, handlerOpen,
                   storageResourceVersions, storageResourceSynchros, syncResources,
                   setSyncResourcesCh, runningCondition, healthyCondition>>
    /\ UNCHANGED <<callerVars, pcWatchdog, exception, publisherVars, pcMonitor, runnerVars,
                   stopWatchers, discovery, refRemoved, refClosing, refClean,
                   reconcilerVars>>

\* refreshSyncResources, line 369: s.runnerLock.Lock()
RefreshLock ==
    /\ pcRefresher = "lock"
    /\ runnerLock = "free"
    /\ runnerLock' = "refresh"
    /\ pcRefresher' = "create"
    /\ UNCHANGED <<closeOnce, closer, closed, updateStatusCh, startRunnerCh, stopRunnerCh,
                   waitGroup, handlerStopCh, handlerOpen,
                   storageResourceVersions, storageResourceSynchros, syncResources,
                   setSyncResourcesCh, groupResourceStatus, runningCondition,
                   healthyCondition>>
    /\ UNCHANGED <<callerVars, pcWatchdog, exception, publisherVars, pcMonitor, runnerVars,
                   stopWatchers, discovery, refPlan, refTodo, refRemoved, refClosing,
                   refClean, refDeleted, refGVRs, lastRefresh, cleanCalls, reconcilerVars>>

\* The mutant of Loaded: the registry is not consulted.
LoadedNever(registry, g) == FALSE

\* refreshSyncResources, line 374: s.storageResourceSynchros.Load(storageGVR) is ok.
Loaded(registry, g) == g \in DOMAIN registry

\* refreshSyncResources, lines 372-376: a registered storage GVR is left alone.
RefreshKeep(g) ==
    /\ pcRefresher = "create"
    /\ g \in refTodo
    /\ Loaded(storageResourceSynchros, g)
    /\ refTodo' = refTodo \ {g}
    /\ UNCHANGED <<synchroVars, callerVars, pcWatchdog, exception, publisherVars, pcMonitor,
                   runnerVars, stopWatchers, discovery, pcRefresher, refPlan, refRemoved,
                   refClosing, refClean, refDeleted, refGVRs, lastRefresh, cleanCalls,
                   reconcilerVars>>

\* refreshSyncResources, lines 378-383: NewResourceStorage fails.
RefreshStorageFailed(g) ==
    /\ pcRefresher = "create"
    /\ g \in refTodo
    /\ ~Loaded(storageResourceSynchros, g)
    /\ groupResourceStatus' =
           updateSyncConditions(groupResourceStatus, refGVRs, g, "Pending",
                                "SynchroCreateFailed", "new resource storage failed")
    /\ refTodo' = refTodo \ {g}
    /\ lastRefresh' = [lastRefresh EXCEPT !.createFailed = @ \cup {g}]
    /\ UNCHANGED <<closeOnce, closer, closed, updateStatusCh, startRunnerCh, stopRunnerCh,
                   waitGroup, runnerLock, handlerStopCh, handlerOpen,
                   storageResourceVersions, storageResourceSynchros, syncResources,
                   setSyncResourcesCh, runningCondition, healthyCondition>>
    /\ UNCHANGED <<callerVars, pcWatchdog, exception, publisherVars, pcMonitor, runnerVars,
                   stopWatchers, discovery, pcRefresher, refPlan, refRemoved, refClosing,
                   refClean, refDeleted, refGVRs, cleanCalls, reconcilerVars>>

\* The mutant of EnsureResourceVersions: the entry is made as the zero value of
\* ClusterResourceVersions, its two submaps nil.
EnsureZeroResourceVersions(versions, g) ==
    IF g \in DOMAIN versions THEN versions
    ELSE (g :> [Resources |-> NilMap, Events |-> NilMap]) @@ versions

\* refreshSyncResources, lines 385-392: the watermark entry of g, made when missing.
EnsureResourceVersions(versions, g) ==
    IF g \in DOMAIN versions THEN versions
    ELSE (g :> [Resources |-> MakeMap({}), Events |-> MakeMap({})]) @@ versions

\* refreshSyncResources, lines 385-422: NewResourceSynchro fails.
RefreshSynchroFailed(g) ==
    /\ pcRefresher = "create"
    /\ g \in refTodo
    /\ ~Loaded(storageResourceSynchros, g)
    /\ storageResourceVersions' = EnsureResourceVersions(storageResourceVersions, g)
    /\ groupResourceStatus' =
           updateSyncConditions(groupResourceStatus, refGVRs, g, "Pending",
                                "SynchroCreateFailed", "new resource synchro failed")
    /\ refTodo' = refTodo \ {g}
    /\ lastRefresh' = [lastRefresh EXCEPT !.createFailed = @ \cup {g}]
    /\ UNCHANGED <<closeOnce, closer, closed, updateStatusCh, startRunnerCh, stopRunnerCh,
                   waitGroup, runnerLock, handlerStopCh, handlerOpen,
                   storageResourceSynchros, syncResources,
                   setSyncResourcesCh, runningCondition, healthyCondition>>
    /\ UNCHANGED <<callerVars, pcWatchdog, exception, publisherVars, pcMonitor, runnerVars,
                   stopWatchers, discovery, pcRefresher, refPlan, refRemoved, refClosing,
                   refClean, refDeleted, refGVRs, cleanCalls, reconcilerVars>>

\* The mutant of EventVersions: no event config is ever made.
EventVersionsUnset(syncEvents, rvs) == NilMap

\* refreshSyncResources, lines 398-404: the event watermarks handed to the
\* reconciler are the Events submap when syncEvents is set; else there is no
\* event config.
EventVersions(syncEvents, rvs) == IF syncEvents THEN rvs.Events ELSE NilMap

\* The mutant of HandlerRunning: a closed handlerStopCh counts as well.
HandlerMade == handlerStopCh # 0

\* refreshSyncResources, lines 430-436: handlerStopCh is set and not closed.
HandlerRunning == handlerStopCh # 0 /\ handlerStopCh \in handlerOpen

\* refreshSyncResources, lines 378-436: the reconciler of g is created with the
\* watermark maps of g, its Run is launched under closer, it is registered, its sync
\* conditions are reset, and its Start is launched when the runner is Running.
RefreshCreate(g) ==
    /\ pcRefresher = "create"
    /\ g \in refTodo
    /\ ~Loaded(storageResourceSynchros, g)
    /\ Len(synchros) < MaxSynchros
    /\ LET versions == EnsureResourceVersions(storageResourceVersions, g)
           i == Len(synchros) + 1
       IN  /\ storageResourceVersions' = versions
           /\ synchros' = Append(synchros,
                  NewResourceSynchro(g, refPlan[g], versions[g].Resources,
                                     EventVersions(SyncEvents(g), versions[g])))
           /\ storageResourceSynchros' = (g :> i) @@ storageResourceSynchros
           /\ starts' = IF HandlerRunning
                        THEN LaunchStarts({i}, handlerStopCh, starts) ELSE starts
           /\ startsAlive' = IF HandlerRunning
                             THEN startsAlive \cup {<<i, handlerStopCh>>}
                             ELSE startsAlive
    /\ waitGroup' = waitGroup + 1
    /\ groupResourceStatus' =
           updateSyncConditions(groupResourceStatus, refGVRs, g, "Unknown", "", "")
    /\ refTodo' = refTodo \ {g}
    /\ UNCHANGED <<closeOnce, closer, closed, updateStatusCh, startRunnerCh, stopRunnerCh,
                   runnerLock, handlerStopCh, handlerOpen, syncResources,
                   setSyncResourcesCh, runningCondition, healthyCondition>>
    /\ UNCHANGED <<callerVars, pcWatchdog, exception, publisherVars, pcMonitor, runnerVars,
                   stopWatchers, discovery, pcRefresher, refPlan, refRemoved, refClosing,
                   refClean, refDeleted, refGVRs, lastRefresh, cleanCalls>>

\* The mutant of RemovedStorageGVRs: nothing is collected.
RemovedNothing(registry, plan) == {}

\* refreshSyncResources, lines 440-448: the registered storage GVRs absent from the
\* plan.
RemovedStorageGVRs(registry, plan) == DOMAIN registry \ DOMAIN plan

\* refreshSyncResources, lines 438-448: the lock is released and the registered
\* storage GVRs absent from the plan are collected.
RefreshUnlock ==
    /\ pcRefresher = "create"
    /\ refTodo = {}
    /\ runnerLock' = "free"
    /\ refRemoved' = RemovedStorageGVRs(storageResourceSynchros, refPlan)
    /\ pcRefresher' = "remove"
    /\ UNCHANGED <<closeOnce, closer, closed, updateStatusCh, startRunnerCh, stopRunnerCh,
                   waitGroup, handlerStopCh, handlerOpen,
                   storageResourceVersions, storageResourceSynchros, syncResources,
                   setSyncResourcesCh, groupResourceStatus, runningCondition,
                   healthyCondition>>
    /\ UNCHANGED <<callerVars, pcWatchdog, exception, publisherVars, pcMonitor, runnerVars,
                   stopWatchers, discovery, refPlan, refTodo, refClosing,
                   refClean, refDeleted, refGVRs, lastRefresh, cleanCalls, reconcilerVars>>

\* refreshSyncResources, lines 449-452: Close is called on the reconciler of a removed
\* storage GVR and the select on its completion is entered.
RefreshClose(g) ==
    /\ pcRefresher = "remove"
    /\ refClosing = Nil
    /\ g \in refRemoved
    /\ synchros' = [synchros EXCEPT ![storageResourceSynchros[g]].closeCalled = TRUE]
    /\ refClosing' = g
    /\ UNCHANGED <<synchroVars, callerVars, pcWatchdog, exception, publisherVars, pcMonitor,
                   runnerVars, stopWatchers, discovery, pcRefresher, refPlan, refTodo,
                   refRemoved, refClean, refDeleted, refGVRs, lastRefresh, cleanCalls, starts,
                   startsAlive>>

\* refreshSyncResources, lines 452 and 457-458: the completion of Close is received;
\* the conditions are set to Stop/SynchroRemoved and the reconciler is deregistered.
RefreshClosed ==
    /\ pcRefresher = "remove"
    /\ refClosing # Nil
    /\ synchros[storageResourceSynchros[refClosing]].done
    /\ groupResourceStatus' =
           updateSyncConditions(groupResourceStatus, refGVRs, refClosing, "Stop",
                                "SynchroRemoved", "the resource synchro is moved")
    /\ storageResourceSynchros' =
           [g \in DOMAIN storageResourceSynchros \ {refClosing} |->
               storageResourceSynchros[g]]
    /\ refRemoved' = refRemoved \ {refClosing}
    /\ lastRefresh' = [lastRefresh EXCEPT !.observed = @ \cup {refClosing}]
    /\ refClosing' = Nil
    /\ UNCHANGED <<closeOnce, closer, closed, updateStatusCh, startRunnerCh, stopRunnerCh,
                   waitGroup, runnerLock, handlerStopCh, handlerOpen,
                   storageResourceVersions, syncResources,
                   setSyncResourcesCh, runningCondition, healthyCondition>>
    /\ UNCHANGED <<callerVars, pcWatchdog, exception, publisherVars, pcMonitor, runnerVars,
                   stopWatchers, discovery, pcRefresher, refPlan, refTodo,
                   refClean, refDeleted, refGVRs, cleanCalls, reconcilerVars>>

\* refreshSyncResources, lines 453-454: case <-s.closer: return
RefreshInterrupted ==
    /\ pcRefresher = "remove"
    /\ refClosing # Nil
    /\ Closed(closer)
    /\ RefreshReturns
    /\ lastRefresh' = [lastRefresh EXCEPT !.state = "interrupted"]
    /\ pcRefresher' = "wait"
    /\ UNCHANGED <<synchroVars, callerVars, pcWatchdog, exception, publisherVars, pcMonitor,
                   runnerVars, stopWatchers, discovery, cleanCalls, reconcilerVars>>

\* The mutant of CleanTargets: every watermark entry is a target.
CleanTargetsAll(versions, plan) == DOMAIN versions

\* refreshSyncResources, lines 463-466: the watermark entries whose storage GVR is
\* absent from the plan are the ones deleted and cleaned.
CleanTargets(versions, plan) == DOMAIN versions \ DOMAIN plan

\* refreshSyncResources, lines 460-463: the watermark entries absent from the plan.
RefreshRemoved ==
    /\ pcRefresher = "remove"
    /\ refClosing = Nil
    /\ refRemoved = {}
    /\ refClean' = CleanTargets(storageResourceVersions, refPlan)
    /\ pcRefresher' = "clean"
    /\ UNCHANGED <<synchroVars, callerVars, pcWatchdog, exception, publisherVars, pcMonitor,
                   runnerVars, stopWatchers, discovery, refPlan, refTodo, refRemoved,
                   refClosing, refDeleted, refGVRs, lastRefresh, cleanCalls, reconcilerVars>>

\* The mutant of NotDeleteFailed: the deleted set is left as it is.
DeleteFailedToo(deleted, gvrs, failed) == deleted

\* refreshSyncResources, lines 479-482: the sync GVRs of a storage GVR whose clean
\* failed are taken out of the deleted set.
NotDeleteFailed(deleted, gvrs, failed) == IF failed THEN deleted \ gvrs ELSE deleted

\* The mutant of DeleteVersions: the entry is kept when the clean fails.
DeleteVersionsIfCleaned(versions, g, failed) ==
    IF failed THEN versions ELSE [k \in DOMAIN versions \ {g} |-> versions[k]]

\* refreshSyncResources, lines 468-469: the entry of g is deleted, whether the clean
\* that follows succeeds or not.
DeleteVersions(versions, g, failed) == [k \in DOMAIN versions \ {g} |-> versions[k]]

\* refreshSyncResources, lines 463-483: the watermark entry of g is deleted and
\* CleanClusterResource is called; when it fails the sync GVRs of g are kept.
RefreshClean(g, failed) ==
    /\ pcRefresher = "clean"
    /\ g \in refClean
    /\ storageResourceVersions' = DeleteVersions(storageResourceVersions, g, failed)
    /\ groupResourceStatus' =
           IF failed
           THEN updateSyncConditions(groupResourceStatus, refGVRs, g, "Stop",
                                     "CleanResourceFailed", "clean failed")
           ELSE groupResourceStatus
    /\ refDeleted' = NotDeleteFailed(refDeleted, refGVRs[g], failed)
    /\ refClean' = refClean \ {g}
    /\ cleanCalls' = [cleanCalls EXCEPT ![g] = @ + 1]
    /\ lastRefresh' = [lastRefresh EXCEPT
                          !.cleaned = @ \cup {g},
                          !.cleanFailed = IF failed THEN @ \cup {g} ELSE @]
    /\ UNCHANGED <<closeOnce, closer, closed, updateStatusCh, startRunnerCh, stopRunnerCh,
                   waitGroup, runnerLock, handlerStopCh, handlerOpen,
                   storageResourceSynchros, syncResources,
                   setSyncResourcesCh, runningCondition, healthyCondition>>
    /\ UNCHANGED <<callerVars, pcWatchdog, exception, publisherVars, pcMonitor, runnerVars,
                   stopWatchers, discovery, pcRefresher, refPlan, refTodo, refRemoved,
                   refClosing, refGVRs, reconcilerVars>>

\* refreshSyncResources, lines 485-488: DeleteVersion for what is still deleted; the
\* refresh returns.
RefreshFinish ==
    /\ pcRefresher = "clean"
    /\ refClean = {}
    /\ groupResourceStatus' =
           Status([gvr \in DOMAIN groupResourceStatus.conds \ refDeleted |->
                      groupResourceStatus.conds[gvr]])
    /\ RefreshReturns
    /\ lastRefresh' = [lastRefresh EXCEPT !.state = "returned"]
    /\ pcRefresher' = "wait"
    /\ UNCHANGED <<closeOnce, closer, closed, updateStatusCh, startRunnerCh, stopRunnerCh,
                   waitGroup, runnerLock, handlerStopCh, handlerOpen,
                   storageResourceVersions, storageResourceSynchros, syncResources,
                   setSyncResourcesCh, runningCondition, healthyCondition>>
    /\ UNCHANGED <<callerVars, pcWatchdog, exception, publisherVars, pcMonitor, runnerVars,
                   stopWatchers, discovery, cleanCalls, reconcilerVars>>

\* ------------------------------------------------------------------- Next

\* Run, from its first statement to the launch of the publisher.
RunLaunch ==
    \/ RunStore \/ RunStartMonitor \/ RunStartRunner \/ RunStartPublisher

\* Run's final select and its wait on closed.
RunSelect ==
    \/ CloseShutdown \/ RunSelectCloser \/ RunSelectShutdown \/ RunWaitClosed

\* Shutdown(updateStatus, waitResourceSynchro) called by the callers in C, and the
\* watchdog goroutine of its body.
ShutdownSteps(C) ==
    \/ \E c \in C, u \in BOOLEAN : ShutdownCall(c, u)
    \/ \E c \in C : OnceEnter(c)
    \/ \E c \in C : BodyCloseCloser(c)
    \/ \E c \in C : BodyWait(c)
    \/ \E c \in C : BodyStore(c)
    \/ \E c \in C : BodyUpdateStatus(c)
    \/ \E c \in C : BodyCloseStatusCh(c)
    \/ \E c \in C : ShutdownReturn(c)
    \/ WatchdogExit

\* One Shutdown(true, _) up to the closing of the lifetime signal.
ShutdownCloses ==
    \/ ShutdownCall("ext1", TRUE)
    \/ OnceEnter("ext1")
    \/ BodyCloseCloser("ext1")

\* The status publisher goroutine while no resource was ever negotiated: the
\* status it generates has no sync condition to fill.
PublisherBare ==
    \/ PublisherReceive \/ PublisherLoad \/ PublisherUpdate(FALSE) \/ PublisherExit

\* The status publisher goroutine.
PublisherSteps ==
    \/ PublisherBare
    \/ PublisherFill

\* The monitor of a cluster that becomes healthy and stays so.
MonitorHealthy ==
    \/ MonitorCheck(TRUE)
    \/ MonitorStartRunner1 \/ MonitorStartRunner2
    \/ MonitorUpdateStatus \/ MonitorExit

\* The monitor of a cluster whose health changes both ways.
MonitorSteps ==
    \/ \E ready \in BOOLEAN : MonitorCheck(ready)
    \/ MonitorStartRunner1 \/ MonitorStartRunner2
    \/ MonitorStopRunner1 \/ MonitorStopRunner2
    \/ MonitorUpdateStatus \/ MonitorExit

\* The runner goroutine and the goroutines it spawns to close handlerStopCh,
\* while stopRunnerCh is never closed.
RunnerHealthy ==
    \/ RunnerEnter \/ RunnerSelectStart \/ RunnerSelectCloser
    \/ RunnerSelectDefault \/ RunnerStartPass \/ RunnerWait
    \/ \E h \in DOMAIN stopWatchers : WatcherEnter(h)
    \/ \E h \in DOMAIN stopWatchers : WatcherClose(h)

\* The runner goroutine and the goroutines it spawns to close handlerStopCh.
RunnerSteps ==
    \/ RunnerHealthy
    \/ RunnerSelectStop

\* The discovery manager: it starts the refresher and exits with its stop channel.
DiscoveryLaunch ==
    \/ \E h \in DOMAIN discovery : DiscoveryAfterStart(h)
    \/ \E h \in DOMAIN discovery : DiscoveryExit(h)

\* The discovery manager, with the mutation callback it fires on API changes.
DiscoverySteps ==
    \/ DiscoveryLaunch
    \/ \E h \in DOMAIN discovery : DiscoveryMutation(h)

\* The goroutines of the reconcilers end with their stop signals.
SynchroExits ==
    \/ \E i \in DOMAIN synchros : SynchroRunExit(i)
    \/ \E p \in startsAlive : SynchroStartExit(p[1], p[2])

\* The reconcilers, with the progress of their own status.
SynchroSteps ==
    \/ SynchroExits
    \/ \E i \in DOMAIN synchros : SynchroAdvance(i)

\* SetResources with a desired set of D, the refresher, and refreshSyncResources
\* where it negotiates, creates reconcilers and finds nothing to remove.
RefreshAdds(D) ==
    \/ \E r \in D : SetResources(r)
    \/ RefresherWake \/ RefreshNegotiate \/ RefreshLock
    \/ \E g \in StorageGVRs : RefreshKeep(g)
    \/ \E g \in StorageGVRs : RefreshStorageFailed(g)
    \/ \E g \in StorageGVRs : RefreshSynchroFailed(g)
    \/ \E g \in StorageGVRs : RefreshCreate(g)
    \/ RefreshUnlock \/ RefreshRemoved \/ RefreshFinish

\* refreshSyncResources removing reconcilers and cleaning watermarks.
RefreshRemoves ==
    \/ \E g \in StorageGVRs : RefreshClose(g)
    \/ RefreshClosed
    \/ \E g \in StorageGVRs, failed \in BOOLEAN : RefreshClean(g, failed)

\* SetResources, the refresher and every path of refreshSyncResources.
RefreshSteps(D) ==
    \/ RefreshAdds(D)
    \/ RefreshRemoves
    \/ RefresherExit \/ RefreshInterrupted \/ RefreshUnset

\* ------------------------------------------------------------ error values

\* Everything but the error value.
synchroState == <<synchroVars, callerVars, pcWatchdog, publisherVars, pcMonitor, runnerVars,
                  stopWatchers, discovery, refreshVars, reconcilerVars>>

\* The storage layer makes an error with errors.New.
RaiseError(msg) ==
    /\ exception.made = "none"
    /\ exception' = [NoException EXCEPT !.err = ErrorString(msg), !.made = "errors.New"]
    /\ UNCHANGED synchroState

\* A layer wraps the error it got with fmt.Errorf("...: %w", err).
WrapWithErrorf(msg) ==
    /\ exception.err # NilError
    /\ WrapDepth(exception.err) < MaxWrap
    /\ exception' = [NoException EXCEPT !.err = WrapError(msg, exception.err),
                                        !.made = "fmt.Errorf"]
    /\ UNCHANGED synchroState

\* A layer marks the error it got (nil included) with NewRecoverableException.
MarkRecoverable ==
    /\ WrapDepth(exception.err) < MaxWrap
    /\ exception' = [NoException EXCEPT !.err = NewRecoverableException(exception.err),
                                        !.made = "NewRecoverableException"]
    /\ UNCHANGED synchroState

\* A caller asks IsRecoverableException of the error it got and, where the error has a
\* message, of an errors.New error with the same message.
AskRecoverable ==
    /\ ~exception.asked
    /\ exception' = [exception EXCEPT
           !.asked = TRUE,
           !.said = IsRecoverableException(exception.err),
           !.saidOfTwin = IF HasMessage(exception.err)
                          THEN IsRecoverableException(ErrorString(ErrorMessage(exception.err)))
                          ELSE FALSE]
    /\ UNCHANGED synchroState

\* The error is dropped; the next operation starts without one.
DropError ==
    /\ exception.asked
    /\ exception' = NoException
    /\ UNCHANGED synchroState

ExceptionSteps ==
    \/ \E msg \in Messages : RaiseError(msg)
    \/ \E msg \in Messages : WrapWithErrorf(msg)
    \/ MarkRecoverable
    \/ AskRecoverable
    \/ DropError

Next ==
    \/ RunLaunch \/ RunSelect
    \/ ShutdownSteps(Callers)
    \/ PublisherSteps
    \/ MonitorSteps
    \/ RunnerSteps
    \/ DiscoverySteps
    \/ SynchroSteps
    \/ RefreshSteps(DesiredSets)
    \/ ExceptionSteps

Spec == Init /\ [][Next]_vars

\* The life of one synchro: Run, concurrent Shutdown calls, the publisher, the
\* monitor of a healthy cluster and the runner.
LifecycleNext ==
    \/ RunLaunch \/ RunSelect
    \/ ShutdownSteps(Callers)
    \/ PublisherBare
    \/ MonitorHealthy
    \/ RunnerHealthy

LifecycleSpec == InitWith(<<>>) /\ [][LifecycleNext]_vars

\* The runner under a cluster whose health flaps, with one Shutdown caller.
HealthNext ==
    \/ RunLaunch \/ RunSelect
    \/ ShutdownSteps({"ext1"})
    \/ PublisherBare
    \/ MonitorSteps
    \/ RunnerSteps

HealthSpec == InitWith(<<>>) /\ [][HealthNext]_vars

\* The runner under a cluster whose health flaps, with no shutdown.
FlapNext ==
    \/ RunLaunch
    \/ \E ready \in BOOLEAN : MonitorCheck(ready)
    \/ MonitorStartRunner1 \/ MonitorStartRunner2
    \/ MonitorStopRunner1 \/ MonitorStopRunner2
    \/ MonitorUpdateStatus
    \/ RunnerEnter \/ RunnerSelectStart \/ RunnerSelectStop
    \/ RunnerSelectDefault \/ RunnerStartPass \/ RunnerWait
    \/ \E h \in DOMAIN stopWatchers : WatcherEnter(h)
    \/ \E h \in DOMAIN stopWatchers : WatcherClose(h)

\* Reconcilers created by the refresher and restarted by the runner as the
\* cluster's health flaps, with no shutdown.
OnlyDeployments == {{"apps/v1/deployments"}}

RestartNext ==
    \/ FlapNext
    \/ DiscoveryLaunch
    \/ \E p \in startsAlive : SynchroStartExit(p[1], p[2])
    \/ RefreshAdds(OnlyDeployments)

RestartSpec == InitWith(<<>>) /\ [][RestartNext]_vars

\* The refresher adding and removing the reconciler of one storage resource,
\* from every persisted state of the watermarks.
DeploymentsOrNothing == {{"apps/v1/deployments"}, {}}

RefreshNext ==
    \/ RunLaunch
    \/ ShutdownCloses
    \/ MonitorHealthy
    \/ RunnerHealthy
    \/ DiscoveryLaunch
    \/ SynchroExits
    \/ RefreshAdds(DeploymentsOrNothing)
    \/ RefreshRemoves
    \/ RefresherExit \/ RefreshInterrupted

RefreshSpec == Init /\ [][RefreshNext]_vars

\* Two sync resources stored as one storage resource, published while their
\* reconciler makes progress; the synchro is not shut down.
CronJobsOrNothing == {{"batch/v1beta1/cronjobs", "batch/v1/cronjobs"}, {}}

PublishNext ==
    \/ RunLaunch
    \/ PublisherReceive \/ PublisherLoad \/ PublisherFill \/ PublisherUpdate(FALSE)
    \/ MonitorCheck(TRUE)
    \/ MonitorStartRunner1 \/ MonitorStartRunner2
    \/ MonitorUpdateStatus
    \/ RunnerEnter \/ RunnerSelectStart \/ RunnerSelectDefault \/ RunnerStartPass
    \/ \E h \in DOMAIN stopWatchers : WatcherEnter(h)
    \/ \E h \in DOMAIN discovery : DiscoveryAfterStart(h)
    \/ \E i \in DOMAIN synchros : SynchroAdvance(i)
    \/ \E i \in DOMAIN synchros : SynchroRunExit(i)
    \/ RefreshAdds(CronJobsOrNothing)
    \/ RefreshRemoves

PublishSpec == InitWith(<<>>) /\ [][PublishNext]_vars

\* A whole life with one Shutdown caller and a refresher at work.
TeardownNext ==
    \/ RunLaunch \/ RunSelect
    \/ ShutdownSteps({"ext1"})
    \/ PublisherSteps
    \/ MonitorHealthy
    \/ RunnerHealthy
    \/ DiscoveryLaunch
    \/ SynchroExits
    \/ RefreshAdds(OnlyDeployments)
    \/ RefresherExit

TeardownSpec == InitWith(<<>>) /\ [][TeardownNext]_vars

\* ----------------------------------------------------- Shutdown is once-only

\* C1: however many callers call Shutdown, one after another or at once and with
\* any updateStatus argument, closer is closed at most once, the terminal running
\* condition is written at most once and updateStatusCh is closed at most once;
\* and a caller is past closeOnce.Do only when the one body that runs has run to
\* its end, each of the three having then happened exactly once.
ShutdownOnceOnly ==
    /\ closer <= 1
    /\ terminalWrites <= 1
    /\ updateStatusCh.closes <= 1
    /\ \A c \in Callers :
          pcShutdown[c] \in {"waitClosed", "bodyDone", "done"}
              => /\ closeOnce = "done"
                 /\ closer = 1
                 /\ terminalWrites = 1
                 /\ updateStatusCh.closes = 1

\* Three Shutdown calls, with both updateStatus arguments, have all returned.
ShutdownThrice ==
    /\ \A c \in Callers : pcShutdown[c] = "done"
    /\ updateStatusArg["ext1"] # updateStatusArg["ext2"]
    /\ closer = 1

\* ------------------------------------------------------- Shutdown returns

\* The scheduler is fair to every goroutine; callers choose whether to call
\* Shutdown and whether to close `shutdown`, and the cluster whether to be healthy.
LifecycleFairness ==
    /\ WF_vars(RunLaunch)
    /\ WF_vars(RunSelectCloser \/ RunSelectShutdown \/ RunWaitClosed)
    /\ \A c \in Callers :
          WF_vars(OnceEnter(c) \/ BodyCloseCloser(c) \/ BodyWait(c) \/ BodyStore(c)
                  \/ BodyUpdateStatus(c) \/ BodyCloseStatusCh(c) \/ ShutdownReturn(c))
    /\ WF_vars(WatchdogExit)
    /\ WF_vars(PublisherBare)
    /\ WF_vars(MonitorStartRunner1 \/ MonitorStartRunner2 \/ MonitorUpdateStatus
               \/ MonitorExit)
    /\ WF_vars(RunnerEnter \/ RunnerSelectStart \/ RunnerSelectCloser
               \/ RunnerSelectDefault \/ RunnerStartPass \/ RunnerWait)
    /\ WF_vars(\E h \in DOMAIN stopWatchers : WatcherEnter(h) \/ WatcherClose(h))

FairLifecycleSpec == LifecycleSpec /\ LifecycleFairness

\* C2: under fair scheduling, with Run called at some time, every call of Shutdown
\* returns: the calls made before Run begins, those made while it runs, and the
\* one Run makes itself when its `shutdown` channel is closed.
ShutdownReturns ==
    \A c \in Callers : (pcShutdown[c] # "idle") ~> (pcShutdown[c] = "done")

\* Run has shut the synchro down through its own channel and returned, and the
\* two outside calls have returned as well.
RunShutDownItself ==
    /\ pcRun = "done"
    /\ shutdown
    /\ \A c \in Callers : pcShutdown[c] = "done"
    /\ pcWatchdog = "exited"

\* ------------------------------------------------- the last published status

\* C4: Run has stored its running condition and the Shutdown call that runs the
\* body has updateStatus = true. Once the publisher has exited, the status of its
\* last UpdateClusterStatus call carries Running = False with reason Shutdown.
\* (Run's store preceding the body's is read off the condition that is left.)
LastStatusIsShutdown ==
    \A c \in Callers :
        (/\ pcPublisher = "exited"
         /\ pcShutdown[c] = "bodyDone"
         /\ updateStatusArg[c]
         /\ runningCondition = Condition("False", "Shutdown"))
            => /\ Len(lastStatus.Conditions) = 2
               /\ lastStatus.Conditions[1] = Condition("False", "Shutdown")

\* Shutdown(true) ran the body after the monitor had made the cluster healthy, the
\* monitor has stopped, and the publisher has published the terminal condition and
\* exited.
TerminalStatusPublished ==
    /\ pcPublisher = "exited"
    /\ pcShutdown["ext1"] = "bodyDone"
    /\ updateStatusArg["ext1"]
    /\ startRunnerCh.closed
    /\ Len(lastStatus.Conditions) = 2
    /\ lastStatus.Conditions[1] = Condition("False", "Shutdown")
    /\ lastStatus.Conditions[2] = Condition("Unknown", "MonitorStop")

\* -------------------------------------------------- nothing runs after Shutdown

\* C3: after Shutdown returns no goroutine of the synchro is still running, the
\* refresher and a refresh in progress included, and no new reconciler is created
\* or launched afterwards. This is the last clause: once a Shutdown call has
\* returned, no step creates a reconciler or launches a Start.
NoCreationAfterShutdown ==
    [][(\E c \in Callers : pcShutdown[c] = "done")
           => /\ Len(synchros') = Len(synchros)
              /\ starts' = starts]_vars

\* ------------------------------------------- watermarks of the live registry

\* C5: in every reachable state, every storage GVR with a reconciler in
\* storageResourceSynchros has an entry in storageResourceVersions whose Resources
\* and Events submaps are both non-nil.
RegistryHasVersions ==
    \A g \in DOMAIN storageResourceSynchros :
        /\ g \in DOMAIN storageResourceVersions
        /\ ~storageResourceVersions[g].Resources.nil
        /\ ~storageResourceVersions[g].Events.nil

\* New loaded a watermark entry whose Events submap was nil, and a reconciler is
\* registered for its storage GVR.
RegisteredOverPersistedNil ==
    /\ "apps/v1/deployments" \in DOMAIN storageResourceSynchros
    /\ "apps/v1/deployments" \in DOMAIN storageResourceVersions
    /\ storageResourceVersions["apps/v1/deployments"] =
           [Resources |-> MakeMap({<<"u1", 10>>, <<"u2", 20>>}),
            Events |-> MakeMap({})]

\* --------------------------------------------- one Start per stop signal

\* C6: for every reconciler r and every handlerStopCh instance h, Start(h) is
\* invoked on r at most once, whether by the runner's start pass or by the refresh
\* that created r.
StartedOncePerSignal ==
    \A p \in DOMAIN starts : starts[p] <= 1

\* One reconciler has been started under the first handlerStopCh and, after the
\* cluster's health flapped, again under the second.
StartedUnderTwoSignals ==
    /\ Len(synchros) >= 1
    /\ {<<1, 1>>, <<1, 2>>} \subseteq DOMAIN starts
    /\ starts[<<1, 1>>] = 1
    /\ starts[<<1, 2>>] = 1

\* ------------------------------------------- what a refresh leaves registered

\* C7 as stated: after a refresh with a plan has returned, every storage GVR absent
\* from its plan is absent from the registry or the refresh has observed the
\* completion of its reconciler's Close.
RemovedOrCloseObserved ==
    lastRefresh.state \in {"returned", "interrupted"}
        => \A g \in StorageGVRs \ lastRefresh.plan :
               \/ g \notin DOMAIN storageResourceSynchros
               \/ g \in lastRefresh.observed

\* C7: after a refresh with a plan has returned from its last statement, every
\* storage GVR absent from its plan is absent from the registry; a refresh returns
\* before that only from the select in which it awaits a Close, and only when
\* closer is closed.
RemovedUnlessInterrupted ==
    /\ lastRefresh.state = "returned"
           => \A g \in StorageGVRs \ lastRefresh.plan :
                  g \notin DOMAIN storageResourceSynchros
    /\ lastRefresh.state = "interrupted" => Closed(closer)

\* A refresh whose plan lacked the registered deployments has observed the Close
\* of their reconciler, deregistered it and returned.
RefreshRemovedDeployments ==
    /\ lastRefresh.state = "returned"
    /\ lastRefresh.plan = {}
    /\ lastRefresh.observed = {"apps/v1/deployments"}
    /\ storageResourceSynchros = <<>>
    /\ Len(synchros) >= 1

\* ------------------------------------------------- one live handlerStopCh

\* C8: under every interleaving of startRunner and stopRunner with the runner, at
\* most one handlerStopCh has been made and not yet closed, and the current one is
\* the only one that can be open.
OneLiveHandlerStopCh ==
    /\ Cardinality(handlerOpen) <= 1
    /\ handlerOpen \subseteq {handlerStopCh}

\* The cluster went unhealthy and healthy again, and the runner has made its second
\* handlerStopCh, the first being closed.
SecondHandlerStopCh ==
    /\ handlerStopCh = 2
    /\ handlerOpen = {2}
    /\ stopRunnerCh.id >= 1

\* ------------------------------------------------ stopping on lost health

\* The handlerStopCh instances the runner can make within the bound on flaps.
HandlerIds == 1 .. (MaxChanGen + 2)

\* The scheduler is fair to Run, to the monitor once it has seen a change, to the
\* runner and to each goroutine that closes a handlerStopCh; the cluster's health
\* changes when it will.
FlapFairness ==
    /\ WF_vars(RunLaunch)
    /\ WF_vars(MonitorStartRunner1 \/ MonitorStartRunner2 \/ MonitorStopRunner1
               \/ MonitorStopRunner2 \/ MonitorUpdateStatus)
    /\ WF_vars(RunnerEnter \/ RunnerSelectStart \/ RunnerSelectStop
               \/ RunnerSelectDefault \/ RunnerStartPass \/ RunnerWait)
    /\ \A h \in HandlerIds : WF_vars(WatcherEnter(h) \/ WatcherClose(h))

FairFlapSpec == InitWith(<<>>) /\ [][FlapNext]_vars /\ FlapFairness

\* C9, its first half: when stopRunner has closed stopRunnerCh while a
\* handlerStopCh is open, that handlerStopCh is eventually closed.
StopClosesHandlerStopCh ==
    \A h \in HandlerIds :
        (stopRunnerCh.closed /\ h \in handlerOpen) ~> (h \notin handlerOpen)

\* ------------------------------------- sync GVRs stored as one storage GVR

\* The sync conditions of `conds` agree wherever two sync GVRs share a storage GVR.
SharedConditionsAgree(conds) ==
    \A a \in DOMAIN conds, b \in DOMAIN conds :
        StorageGVROf(a) = StorageGVROf(b) => conds[a] = conds[b]

\* C10: a plan maps several sync GVRs to one storage GVR, with one reconciler and
\* every condition update of refresh applied to each of them. This is the last
\* clause: in the status handed to UpdateClusterStatus the conditions of all sync
\* GVRs of one storage GVR carry the same status, reason, message and initial-list
\* phase.
PublishedConditionsAgree ==
    SharedConditionsAgree(lastStatus.SyncResources.conds)

\* ------------------------------------------- a registered reconciler is kept

\* Plans whose config for cronjobs changes: the sync resource read is batch/v1 or
\* batch/v1beta1.
CronJobsVersions == { {"batch/v1/cronjobs"}, {"batch/v1beta1/cronjobs"} }

\* A healthy cluster whose desired resources change between the two versions of
\* cronjobs, up to the closing of the lifetime signal.
KeepNext ==
    \/ RunLaunch
    \/ ShutdownCloses
    \/ MonitorHealthy
    \/ RunnerHealthy
    \/ DiscoveryLaunch
    \/ SynchroExits
    \/ RefreshAdds(CronJobsVersions)
    \/ RefresherExit

KeepSpec == InitWith(<<>>) /\ [][KeepNext]_vars

\* C11: while a refresh is at work whose plan contains storage GVR g and g has a
\* reconciler registered, no step changes the registry entry of g, calls Close on
\* that reconciler or constructs another reconciler for g, and the step that
\* takes g off the list of the plan's storage GVRs to handle touches neither the
\* status nor the watermarks (no storage is made for g), whatever config the plan
\* has for g.
KeptWhileInPlan ==
    [][\A g \in StorageGVRs :
          (g \in DOMAIN refPlan /\ g \in DOMAIN storageResourceSynchros) =>
             LET i == storageResourceSynchros[g]
             IN  /\ g \in DOMAIN storageResourceSynchros'
                 /\ storageResourceSynchros'[g] = i
                 /\ synchros'[i].closeCalled = synchros[i].closeCalled
                 /\ synchros'[i].syncResource = synchros[i].syncResource
                 /\ \A j \in DOMAIN synchros' \ DOMAIN synchros : synchros'[j].gvr # g
                 /\ (g \in refTodo /\ g \notin refTodo') =>
                        /\ groupResourceStatus' = groupResourceStatus
                        /\ storageResourceVersions' = storageResourceVersions]_vars

\* A refresh has handled its plan, whose config for cronjobs names another sync
\* resource than the one the registered reconciler of cronjobs reads.
KeptOverConfigChange ==
    /\ pcRefresher = "remove"
    /\ "batch/v1/cronjobs" \in DOMAIN refPlan
    /\ "batch/v1/cronjobs" \in DOMAIN storageResourceSynchros
    /\ synchros[storageResourceSynchros["batch/v1/cronjobs"]].syncResource
           # refPlan["batch/v1/cronjobs"]

\* ------------------------------------------- a storage GVR leaves the plan

\* The sync GVRs stored as storage GVR g.
SyncGVRsOf(g) == {gvr \in SyncGVRs : StorageGVROf(gvr) = g}

\* C12: storage GVR g had its reconciler registered when a refresh began whose plan
\* lacks g, and there is no shutdown. Once that refresh has returned, the Close of
\* the reconciler was observed, CleanClusterResource was called for g, g is in
\* neither the registry nor storageResourceVersions, and if the clean succeeded no
\* sync GVR of g is left in the status; and at any time CleanClusterResource has
\* been called at most once for g since g was last in a plan, so the refreshes
\* that follow do not call it again.
CleanedOnceWhenRemoved ==
    /\ \A g \in StorageGVRs : cleanCalls[g] <= 1
    /\ (lastRefresh.state = "returned" /\ ~Closed(closer)) =>
          \A g \in lastRefresh.registered \ lastRefresh.plan :
              /\ g \in lastRefresh.observed
              /\ g \in lastRefresh.cleaned
              /\ cleanCalls[g] = 1
              /\ g \notin DOMAIN storageResourceSynchros
              /\ g \notin DOMAIN storageResourceVersions
              /\ g \notin lastRefresh.cleanFailed
                    => SyncGVRsOf(g) \cap DOMAIN groupResourceStatus.conds = {}

\* Deployments left the plan in an earlier refresh, which closed its reconciler and
\* cleaned it; a later refresh, whose plan lacks deployments as well, has returned
\* and has cleaned nothing.
LaterRefreshCleanedNothing ==
    /\ lastRefresh.state = "returned"
    /\ ~Closed(closer)
    /\ lastRefresh.plan = {}
    /\ lastRefresh.registered = {}
    /\ lastRefresh.cleaned = {}
    /\ cleanCalls["apps/v1/deployments"] = 1
    /\ \E i \in DOMAIN synchros :
          synchros[i].gvr = "apps/v1/deployments" /\ synchros[i].done

\* ------------------------------------------------------ the clean fails

\* C13: CleanClusterResource failed for storage GVR g in the refresh in progress
\* or the last one. From then until the next refresh begins, the sync GVRs of g
\* that Merge had reported deleted are still in the status, with condition
\* Stop/CleanResourceFailed (DeleteVersion was not called for them), g has no
\* entry in storageResourceVersions and no reconciler. And a reconciler is
\* constructed for a storage GVR without watermark entry only by a refresh whose
\* plan contains it, with fresh empty watermark maps.
FailedCleanKeepsStatus ==
    /\ [](\A g \in lastRefresh.cleanFailed :
            /\ \A gvr \in lastRefresh.deleted \cap SyncGVRsOf(g) :
                  /\ gvr \in DOMAIN groupResourceStatus.conds
                  /\ groupResourceStatus.conds[gvr].Status = "Stop"
                  /\ groupResourceStatus.conds[gvr].Reason = "CleanResourceFailed"
            /\ g \notin DOMAIN storageResourceVersions
            /\ g \notin DOMAIN storageResourceSynchros)
    /\ [][\A j \in DOMAIN synchros' \ DOMAIN synchros :
             synchros'[j].gvr \notin DOMAIN storageResourceVersions =>
                /\ synchros'[j].gvr \in DOMAIN refPlan
                /\ synchros'[j].ResourceVersions = MakeMap({})
                /\ synchros'[j].Events =
                       EventVersions(SyncEvents(synchros'[j].gvr),
                                     [Resources |-> MakeMap({}), Events |-> MakeMap({})])
                /\ storageResourceVersions'[synchros'[j].gvr] =
                       [Resources |-> MakeMap({}), Events |-> MakeMap({})]]_vars

\* A refresh has returned in which the clean of deployments failed: deployments was
\* in the status before and is retained.
CleanOfDeploymentsFailed ==
    /\ lastRefresh.state = "returned"
    /\ "apps/v1/deployments" \in lastRefresh.cleanFailed
    /\ "apps/v1/deployments" \in lastRefresh.deleted
    /\ "apps/v1/deployments" \in DOMAIN groupResourceStatus.conds

\* ------------------------------------------------- the creation fails

\* Plans of two storage GVRs, cronjobs being read as two sync GVRs, or of one.
EverythingOrDeployments ==
    { {"batch/v1beta1/cronjobs", "batch/v1/cronjobs", "apps/v1/deployments"},
      {"apps/v1/deployments"} }

\* A healthy cluster whose refreshes create reconcilers or fail to, up to the
\* closing of the lifetime signal.
CreateNext ==
    \/ RunLaunch
    \/ ShutdownCloses
    \/ MonitorHealthy
    \/ RunnerHealthy
    \/ DiscoveryLaunch
    \/ SynchroExits
    \/ RefreshAdds(EverythingOrDeployments)
    \/ RefresherExit

CreateSpec == InitWith(<<>>) /\ [][CreateNext]_vars

\* C14: NewResourceStorage or NewResourceSynchro failed for storage GVR g in the
\* refresh in progress or the last one. Every sync GVR of g in the status is
\* Pending/SynchroCreateFailed and g has no registry entry; the failing step
\* registers nothing and launches no Run and no Start; the refresh goes on
\* through the rest of its plan, so that past the creation loop every storage GVR
\* of the plan is registered or has failed; and every refresh handles every
\* storage GVR of its plan, an unregistered one by a creation that succeeds or
\* fails, so the next refresh whose plan contains g tries again.
CreateFailureIsRetried ==
    /\ [](\A g \in lastRefresh.createFailed :
            /\ \A gvr \in SyncGVRsOf(g) \cap DOMAIN groupResourceStatus.conds :
                  /\ groupResourceStatus.conds[gvr].Status = "Pending"
                  /\ groupResourceStatus.conds[gvr].Reason = "SynchroCreateFailed"
            /\ g \notin DOMAIN storageResourceSynchros)
    /\ [](pcRefresher = "lock" => refTodo = DOMAIN refPlan)
    /\ []((pcRefresher \in {"remove", "clean"} \/ lastRefresh.state = "returned") =>
            \A g \in lastRefresh.plan :
                g \in DOMAIN storageResourceSynchros \/ g \in lastRefresh.createFailed)
    /\ [][/\ lastRefresh'.createFailed # lastRefresh.createFailed =>
                /\ synchros' = synchros
                /\ starts' = starts
                /\ startsAlive' = startsAlive
                /\ waitGroup' = waitGroup
                /\ storageResourceSynchros' = storageResourceSynchros
          /\ \A g \in refTodo \ refTodo' :
                g \notin DOMAIN storageResourceSynchros =>
                   \/ g \in DOMAIN storageResourceSynchros'
                   \/ g \in lastRefresh'.createFailed]_vars

\* A refresh has returned whose creation failed for cronjobs, deployments having
\* been registered by a refresh before it: both sync GVRs of cronjobs are
\* Pending/SynchroCreateFailed.
CronJobsFailedAgain ==
    /\ lastRefresh.state = "returned"
    /\ lastRefresh.createFailed = {"batch/v1/cronjobs"}
    /\ lastRefresh.registered = {"apps/v1/deployments"}
    /\ "apps/v1/deployments" \in DOMAIN storageResourceSynchros
    /\ \A gvr \in {"batch/v1beta1/cronjobs", "batch/v1/cronjobs"} :
          /\ gvr \in DOMAIN groupResourceStatus.conds
          /\ groupResourceStatus.conds[gvr].Reason = "SynchroCreateFailed"

\* ------------------------------------------- Start waits for Running

\* C15: the step that constructs a reconciler launches its Run under the lifetime
\* signal (the wait group grows by one) and, when handlerStopCh is set and open,
\* one Start with that handlerStopCh and no other; when handlerStopCh is nil or
\* closed it launches no Start. The step in which the runner enters Running
\* launches one Start with the new handlerStopCh on every registered reconciler.
\* No other step launches a Start.
StartDeferredUntilRunning ==
    [][LET created == DOMAIN synchros' \ DOMAIN synchros
           running == handlerStopCh # 0 /\ handlerStopCh \in handlerOpen
           launched == DOMAIN starts' \ DOMAIN starts
       IN  /\ \A j \in created :
                 /\ synchros'[j].run = "running"
                 /\ waitGroup' = waitGroup + 1
                 /\ storageResourceSynchros'[synchros'[j].gvr] = j
                 /\ {pr \in DOMAIN starts' : pr[1] = j}
                       = IF running THEN {<<j, handlerStopCh>>} ELSE {}
           /\ handlerStopCh' # handlerStopCh =>
                 \A i \in Registered :
                     /\ <<i, handlerStopCh'>> \in launched
                     /\ starts'[<<i, handlerStopCh'>>] = 1
           /\ \A pr \in launched :
                 \/ pr[1] \in created /\ running /\ pr[2] = handlerStopCh
                 \/ handlerStopCh' # handlerStopCh /\ pr[2] = handlerStopCh'
                       /\ pr[1] \in Registered
           /\ \A pr \in DOMAIN starts : starts'[pr] = starts[pr]]_vars

\* A reconciler was created while handlerStopCh was closed: it is registered, its
\* Run is running, no Start was launched on it, and the runner is about to enter
\* Running again.
CreatedWhileStopped ==
    /\ handlerStopCh # 0
    /\ handlerStopCh \notin handlerOpen
    /\ pcRunner = "pass"
    /\ \E g \in DOMAIN storageResourceSynchros :
          /\ synchros[storageResourceSynchros[g]].run = "running"
          /\ \A pr \in DOMAIN starts : pr[1] # storageResourceSynchros[g]

\* ------------------------------------------------ wakeups are coalesced

\* A healthy cluster that is never shut down: SetResources and discovery mutations
\* wake the refresher, whose refreshes create, close and clean.
WakeNext ==
    \/ RunLaunch
    \/ MonitorCheck(TRUE) \/ MonitorStartRunner1 \/ MonitorStartRunner2
    \/ MonitorUpdateStatus
    \/ RunnerEnter \/ RunnerSelectStart \/ RunnerSelectDefault \/ RunnerStartPass
    \/ \E h \in DOMAIN stopWatchers : WatcherEnter(h)
    \/ \E h \in DOMAIN discovery : DiscoveryAfterStart(h)
    \/ \E h \in DOMAIN discovery : DiscoveryMutation(h)
    \/ \E i \in DOMAIN synchros : SynchroRunExit(i)
    \/ \E pr \in startsAlive : SynchroStartExit(pr[1], pr[2])
    \/ RefreshAdds(DeploymentsOrNothing)
    \/ RefreshRemoves
    \/ RefreshUnset

WakeSpec == InitWith(<<>>) /\ [][WakeNext]_vars

\* Every goroutine of the synchro goes on when it can; callers of SetResources and
\* the discovered resources are under no obligation.
WakeFairness ==
    /\ WF_vars(RunLaunch)
    /\ WF_vars(MonitorCheck(TRUE) \/ MonitorStartRunner1 \/ MonitorStartRunner2
               \/ MonitorUpdateStatus)
    /\ WF_vars(RunnerEnter \/ RunnerSelectStart \/ RunnerSelectDefault
               \/ RunnerStartPass)
    /\ WF_vars(\E h \in DOMAIN discovery : DiscoveryAfterStart(h))
    /\ WF_vars(\E i \in DOMAIN synchros : SynchroRunExit(i))
    /\ WF_vars(RefresherWake \/ RefreshUnset \/ RefreshNegotiate \/ RefreshLock
               \/ (\E g \in StorageGVRs :
                      \/ RefreshKeep(g) \/ RefreshStorageFailed(g)
                      \/ RefreshSynchroFailed(g) \/ RefreshCreate(g))
               \/ RefreshUnlock \/ RefreshRemoves \/ RefreshRemoved \/ RefreshFinish)

FairWakeSpec == WakeSpec /\ WakeFairness

\* C16: setSyncResourcesCh holds at most one wakeup; a step that stores other
\* resources (a SetResources call) leaves a wakeup pending, whether the slot was
\* free or taken; with no shutdown and a refresher that is started at some time,
\* a pending wakeup is eventually taken by the refresher, and a refresher that has
\* taken a wakeup eventually begins a refresh, which negotiates the resources
\* stored when it begins: those of the call or of a later one.
WakeupsCoalescedNotLost ==
    /\ [](setSyncResourcesCh \in {0, 1})
    /\ [][syncResources' # syncResources => setSyncResourcesCh' = 1]_vars
    /\ (setSyncResourcesCh = 1) ~> (pcRefresher = "check")
    /\ (pcRefresher = "check" /\ ~syncResources.nil)
          ~> (/\ pcRefresher = "lock"
              /\ lastRefresh.state = "running"
              /\ lastRefresh.plan = NegotiatedPlan(syncResources.gvrs))

\* SetResources was called while a refresh is in progress on other resources: the
\* wakeup is pending.
WakeupDuringRefresh ==
    /\ setSyncResourcesCh = 1
    /\ pcRefresher \in {"create", "remove", "clean"}
    /\ ~syncResources.nil
    /\ lastRefresh.plan # NegotiatedPlan(syncResources.gvrs)

\* -------------------------------------------- one pending notification

\* Run and Shutdown with a cluster whose health changes both ways, and a
\* ClusterStatusUpdater whose UpdateClusterStatus may return an error.
StatusNext ==
    \/ HealthNext
    \/ PublisherUpdate(TRUE)

StatusSpec == InitWith(<<>>) /\ [][StatusNext]_vars

\* C17: updateStatusCh holds at most one notification; a call of updateStatus
\* leaves one pending and changes nothing when one was pending already; the
\* publisher receives a notification only when one is pending, makes one call of
\* UpdateClusterStatus for it and only then receives again, an error of that call
\* included; the calls of UpdateClusterStatus never outnumber those of
\* updateStatus; and the publisher exits only when updateStatusCh is closed.
OnePendingNotification ==
    /\ [](updateStatusCh.buf \in {0, 1})
    /\ [](updater.lead >= 0)
    /\ [](pcPublisher = "exited" => updateStatusCh.closes > 0)
    /\ [][/\ updater'.lead > updater.lead =>
                /\ updateStatusCh'.buf = 1
                /\ updateStatusCh.buf = 1 => updateStatusCh' = updateStatusCh
          /\ updater' # updater /\ updater'.lead <= updater.lead =>
                pcPublisher = "conds" /\ pcPublisher' = "recv"
          /\ pcPublisher = "conds" /\ pcPublisher' # "conds" =>
                updater'.lead = updater.lead - 1 /\ pcPublisher' = "recv"
          /\ pcPublisher = "recv" /\ pcPublisher' = "load" =>
                updateStatusCh.buf = 1 /\ updateStatusCh'.buf = 0]_vars

\* A call of UpdateClusterStatus failed and a later notification was handled all
\* the same; since then updateStatus was called twice or more, and one
\* notification is pending.
NotificationDropped ==
    /\ updater.err = "recovered"
    /\ updater.lead = 2
    /\ pcPublisher = "recv"
    /\ updateStatusCh.buf = 1


\* ------------------------------------------------------------------- C18

\* Error values made, wrapped and marked by the layers of storage, and asked about.
ExceptionSpec == InitWith(<<>>) /\ [][ExceptionSteps]_vars

\* C18: the recoverable marker is carried by the error value and not by its message:
\* IsRecoverableException says TRUE of an error exactly when NewRecoverableException
\* returned it (whatever it marked, nil included), hence FALSE of every error made by
\* errors.New or fmt.Errorf, one that wraps a marked error included, and FALSE of an
\* unmarked error with the same message as the error asked about.
RecoverableByMarker ==
    exception.asked =>
        /\ exception.said = (exception.made = "NewRecoverableException")
        /\ ~exception.saidOfTwin

\* An error that was marked and has a message has been asked about: it is recoverable,
\* and the unmarked error with its message is not.
MarkedErrorAsked ==
    /\ exception.asked
    /\ exception.made = "NewRecoverableException"
    /\ HasMessage(exception.err)
    /\ exception.said
    /\ ~exception.saidOfTwin


\* ------------------------------------------------------------------- C19

LockGuardsRegistryAndVersions ==
    /\ [][(\/ DOMAIN storageResourceSynchros' # DOMAIN storageResourceSynchros
           \/ DOMAIN storageResourceVersions' # DOMAIN storageResourceVersions)
          => runnerLock = "refresh"]_vars
    /\ [][(\/ Len(synchros') > Len(synchros)
           \/ cleanCalls' # cleanCalls /\ pcRefresher = "clean")
          => runnerLock # "refresh"]_vars
    /\ [](refClosing # Nil => runnerLock # "refresh")


\* ------------------------------------------------------------------- C21

\* C21: the running condition only moves forward, from Pending (New) to Running (Run)
\* to Shutdown (Shutdown): under every interleaving of Run and Shutdown calls, once
\* Shutdown has stored Running=False/Shutdown the running condition never changes
\* again, and every status genClusterStatus loads from then on reports Shutdown.
RunningOnlyMovesForward ==
    /\ [][runningCondition' # runningCondition =>
             <<runningCondition.Reason, runningCondition'.Reason>> \in
                 {<<"Pending", "Running">>, <<"Running", "Shutdown">>,
                  <<"Pending", "Shutdown">>}]_vars
    /\ [][(terminalWrites > 0 /\ pcPublisher = "load" /\ pcPublisher' = "conds") =>
             pubStatus'.Conditions[1] = Condition("False", "Shutdown")]_vars


\* ------------------------------------------------------------------- C22

\* C22: CleanClusterResource is never called for a storage GVR that has a reconciler
\* in the registry. A registry entry is deleted only in a step that has seen Close
\* called on the reconciler and its completion, and that sets the conditions of the
\* storage GVR's sync GVRs to Stop/SynchroRemoved; the clean of a storage GVR that
\* was registered when the refresh began comes after that step, in the same
\* refresh; and a refresh whose wait for a Close was interrupted by the closing of
\* closer has called CleanClusterResource for no storage GVR.
CleanAfterDeregistration ==
    /\ [][\A g \in StorageGVRs :
            /\ (g \in DOMAIN storageResourceSynchros
                /\ g \notin DOMAIN storageResourceSynchros') =>
                   LET r == synchros[storageResourceSynchros[g]]
                   IN  /\ r.closeCalled /\ r.done
                       /\ \A v \in SyncGVRsOf(g) \cap DOMAIN groupResourceStatus'.conds :
                              /\ groupResourceStatus'.conds[v].Status = "Stop"
                              /\ groupResourceStatus'.conds[v].Reason = "SynchroRemoved"
            /\ cleanCalls'[g] # cleanCalls[g] =>
                   /\ g \notin DOMAIN storageResourceSynchros
                   /\ g \notin DOMAIN storageResourceSynchros'
                   /\ g \notin lastRefresh.plan
                   /\ g \in lastRefresh.registered => g \in lastRefresh.observed]_vars
    /\ [](lastRefresh.state = "interrupted" =>
             lastRefresh.cleaned = {} /\ lastRefresh.cleanFailed = {})

\* The refresh that removed the reconciler of deployments has observed its Close,
\* deregistered it and then cleaned the storage of deployments.
CleanedAfterClose ==
    /\ "apps/v1/deployments" \in lastRefresh.registered
    /\ "apps/v1/deployments" \in lastRefresh.observed
    /\ "apps/v1/deployments" \in lastRefresh.cleaned
    /\ "apps/v1/deployments" \notin DOMAIN storageResourceSynchros
    /\ synchros[1].gvr = "apps/v1/deployments" /\ synchros[1].done


\* ------------------------------------------------------------------- C23

\* The runner under a cluster whose health flaps while the refresher adds and
\* removes the reconciler of deployments; the synchro is not shut down. The caller
\* sets deployments once and then, its reconciler being registered, the empty set.
CloseRaceNext ==
    \/ FlapNext
    \/ DiscoveryLaunch
    \/ \E i \in DOMAIN synchros : SynchroRunExit(i)
    \/ syncResources.nil /\ SetResources({"apps/v1/deployments"})
    \/ /\ syncResources = Resources({"apps/v1/deployments"})
       /\ "apps/v1/deployments" \in DOMAIN storageResourceSynchros
       /\ SetResources({})
    \/ RefresherWake \/ RefreshNegotiate \/ RefreshLock
    \/ \E g \in StorageGVRs : RefreshCreate(g)
    \/ RefreshUnlock \/ RefreshRemoved \/ RefreshFinish
    \/ RefreshRemoves

CloseRaceSpec == InitWith(<<>>) /\ [][CloseRaceNext]_vars

\* C23: Start is never invoked on a reconciler after Close has been called on it:
\* under every interleaving of the runner's start pass with a refresh that closes and
\* deregisters the reconcilers removed from the plan, no step launches a Start on a
\* reconciler whose Close has been called.
NoStartAfterClose ==
    [][\A p \in DOMAIN starts' :
          (p \notin DOMAIN starts \/ starts'[p] > starts[p]) =>
              (p[1] \in DOMAIN synchros => ~synchros[p[1]].closeCalled)]_vars


\* ------------------------------------------------------------------- C24

\* A healthy cluster that is never shut down, from every persisted state of the
\* watermarks: discovery mutations wake the refresher before and after SetResources
\* is called, and the publisher publishes what genClusterStatus generates.
UnsetNext ==
    \/ WakeNext
    \/ PublisherReceive \/ PublisherLoad \/ PublisherFill \/ PublisherUpdate(FALSE)

UnsetSpec == Init /\ [][UnsetNext]_vars

\* C24: until SetResources has been called for the first time a refresh changes
\* nothing: as long as syncResources is unset no negotiation is run, no reconciler is
\* created or closed, CleanClusterResource is called for no storage GVR,
\* storageResourceVersions keeps every watermark entry New loaded from storage, and
\* the group/resource status stays unset, so that the statuses generated and
\* published carry no sync-resource section.
UnsetRefreshChangesNothing ==
    /\ [](syncResources.nil =>
             /\ lastRefresh.state \in {"none", "unset"}
             /\ pcRefresher \in {"none", "wait", "check"}
             /\ synchros = <<>>
             /\ storageResourceSynchros = <<>>
             /\ \A g \in StorageGVRs : cleanCalls[g] = 0
             /\ storageResourceVersions \in
                    {initWithResourceVersions(rv) : rv \in PersistedVersions}
             /\ groupResourceStatus.nil
             /\ pubStatus.SyncResources.nil
             /\ lastStatus.SyncResources.nil)
    /\ [][syncResources'.nil =>
             UNCHANGED <<storageResourceVersions, storageResourceSynchros, synchros,
                         cleanCalls, groupResourceStatus>>]_vars

\* A refresh woken by a discovery mutation has returned with the resources unset: the
\* two persisted watermarks of deployments are still recorded and a status without
\* sync-resource section has been published.
UnsetRefreshReturned ==
    /\ syncResources.nil
    /\ lastRefresh.state = "unset"
    /\ pcRefresher = "wait"
    /\ "apps/v1/deployments" \in DOMAIN storageResourceVersions
    /\ storageResourceVersions["apps/v1/deployments"].Resources =
           MakeMap({<<"u1", 10>>, <<"u2", 20>>})
    /\ lastStatus.Conditions # <<>>
    /\ lastStatus.SyncResources.nil

====
